---- MODULE Spec2Model ----
(***************************************************************************)
(* Citadel rules engine and search core: Position state with incremental   *)
(* derived structures and Zobrist hash, move generation, make/undo,        *)
(* null move, and the root driver of the search.                           *)
(*                                                                         *)
(* A 64-bit Zobrist hash is modelled as the set of feature keys currently  *)
(* XORed in (XOR of a key = symmetric difference with its singleton); a    *)
(* bitboard is the set of its squares, iterated in ascending order like    *)
(* pop_lsb.                                                                *)
(***************************************************************************)
EXTENDS Integers, Sequences, FiniteSets, TLC

\* ------------------------------------------------------------------ core.hpp
N == 9
SQ_N == N * N
SQ_NONE == 255
White == 0
Black == 1
Colors == {White, Black}
other(c) == IF c = White THEN Black ELSE White

Mason == 0
Catapult == 1
Lancer == 2
Pegasus == 3
Minister == 4
Sovereign == 5
PieceTypes == Mason..Sovereign

Squares == 0..(SQ_N - 1)
inBounds(r, c) == r >= 0 /\ r < N /\ c >= 0 /\ c < N
sq(r, c) == r * N + c
row(s) == s \div N
col(s) == s % N
isKeepSq(s) == s # SQ_NONE /\ row(s) >= 3 /\ row(s) <= 5 /\ col(s) >= 3 /\ col(s) <= 5

\* Move{type, from, to, aux1, aux2}
Mv(t, f, to, a1, a2) == [type |-> t, from |-> f, to |-> to, aux1 |-> a1, aux2 |-> a2]
nullMove == Mv("Normal", SQ_NONE, SQ_NONE, SQ_NONE, SQ_NONE)

\* ---------------------------------------------------------------- tables.hpp
\* 0:N, 1:S, 2:W, 3:E, 4:NW, 5:NE, 6:SW, 7:SE
DIRS8 == << <<-1, 0>>, <<1, 0>>, <<0, -1>>, <<0, 1>>,
            <<-1, -1>>, <<-1, 1>>, <<1, -1>>, <<1, 1>> >>
KNIGHT == << <<-2, -1>>, <<-2, 1>>, <<-1, -2>>, <<-1, 2>>,
             <<1, -2>>, <<1, 2>>, <<2, -1>>, <<2, 1>> >>

\* The in-bounds squares s + d for the offsets d of a table, in table order.
Targets(s, offs) ==
  LET ok == SelectSeq(offs, LAMBDA d : inBounds(row(s) + d[1], col(s) + d[2]))
  IN [i \in 1..Len(ok) |-> sq(row(s) + ok[i][1], col(s) + ok[i][2])]

kingTargets == [s \in Squares |-> Targets(s, DIRS8)]
knightTargets == [s \in Squares |-> Targets(s, KNIGHT)]
ray == [s \in Squares |-> [dir \in 0..7 |->
          LET d == DIRS8[dir + 1]
              len == Cardinality({k \in 1..(N - 1) : inBounds(row(s) + k * d[1], col(s) + k * d[2])})
          IN [k \in 1..len |-> sq(row(s) + k * d[1], col(s) + k * d[2])]]]

\* Zobrist keys of the Position family, as distinct key identities.
pieceKey(c, pt, s) == 1000 + (c * 6 + pt) * SQ_N + s
wallKey(c, hpIdx, s) == 3000 + (c * 2 + hpIdx) * SQ_N + s
turnKey == 1
bastionKey(c) == 2 + c
wallBuiltLastKey(c) == 4 + c
Xor(h, k) == IF k \in h THEN h \ {k} ELSE h \cup {k}

\* ------------------------------------------------------- board value encoding
Abs(v) == IF v < 0 THEN -v ELSE v
isPieceVal(v) == Abs(v) >= 1 /\ Abs(v) <= 6
isWallVal(v) == Abs(v) >= 7
colorOf(v) == IF v > 0 THEN White ELSE Black
pieceOf(v) == Abs(v) - 1
wallHp(v) == Abs(v) - 6
makePiece(c, pt) == IF c = White THEN 1 + pt ELSE -(1 + pt)
makeWall(c, hp) == IF c = White THEN 6 + hp ELSE -(6 + hp)

Min(a, b) == IF a < b THEN a ELSE b
\* Index of the first element of a sequence satisfying P, or Len + 1 (a scan that breaks).
LeastOr(hit, none) == IF hit = {} THEN none ELSE CHOOSE i \in hit : \A j \in hit : i <= j
FirstIdx(s, P(_)) == LeastOr({i \in 1..Len(s) : P(s[i])}, Len(s) + 1)
RECURSIVE Flatten(_)
Flatten(ss) == IF ss = <<>> THEN <<>> ELSE Head(ss) \o Flatten(Tail(ss))
\* A bitboard's squares in pop_lsb order.
BBSeq(bb) == SelectSeq([i \in 1..SQ_N |-> i - 1], LAMBDA s : s \in bb)

\* ------------------------------------------------------------ Position state
gameOver(p) == p.winner # SQ_NONE
hasDominance(p, c) == isKeepSq(p.sovereignSq[c])
masonMoveRange(p, masonSq, c) == IF hasDominance(p, c) /\ isKeepSq(masonSq) THEN 2 ELSE 1
ministerMoveRange(p, ministerSq, c) == 2 + (IF hasDominance(p, c) /\ isKeepSq(ministerSq) THEN 1 ELSE 0)
\* Mutant: the range does not depend on the wall tokens.
sovereignMoveRangeFree(p, sovSq, c) ==
  1 + (IF hasDominance(p, c) /\ isKeepSq(sovSq) THEN 1 ELSE 0)

sovereignMoveRange(p, sovSq, c) ==
  IF p.wallTokens[c] > 15 THEN 0
  ELSE 1 + (IF hasDominance(p, c) /\ isKeepSq(sovSq) THEN 1 ELSE 0)

\* rebuildDerived: every derived structure and the hash from the raw squares and flags.
rebuildDerived(p) ==
  LET pcs(c, pt) == {s \in Squares : p.b[s] = makePiece(c, pt)}
      walls(c) == {s \in Squares : isWallVal(p.b[s]) /\ colorOf(p.b[s]) = c}
      sovs(c) == pcs(c, Sovereign)
  IN [p EXCEPT
        !.pieceBB = [c \in Colors |-> [pt \in PieceTypes |-> pcs(c, pt)]],
        !.piecesBB = [c \in Colors |-> {s \in Squares : isPieceVal(p.b[s]) /\ colorOf(p.b[s]) = c}],
        !.wallsBB = [c \in Colors |-> walls(c)],
        !.wallsReinfBB = [c \in Colors |-> {s \in walls(c) : wallHp(p.b[s]) = 2}],
        !.wallTokens = [c \in Colors |->
            Cardinality(walls(c)) + Cardinality({s \in walls(c) : wallHp(p.b[s]) = 2})],
        !.sovereignSq = [c \in Colors |->
            IF sovs(c) = {} THEN SQ_NONE ELSE CHOOSE s \in sovs(c) : \A t \in sovs(c) : t <= s],
        !.hash = (IF p.turn = Black THEN {turnKey} ELSE {})
                 \cup {bastionKey(c) : c \in {x \in Colors : p.bastionRight[x]}}
                 \cup {wallBuiltLastKey(c) : c \in {x \in Colors : p.wallBuiltLast[x]}}
                 \cup {pieceKey(colorOf(p.b[s]), pieceOf(p.b[s]), s) : s \in {x \in Squares : isPieceVal(p.b[x])}}
                 \cup {wallKey(colorOf(p.b[s]), wallHp(p.b[s]) - 1, s) : s \in {x \in Squares : isWallVal(p.b[x])}}]

\* The bitboard and hash part of setSquareRaw for one value leaving (add = FALSE)
\* or entering (add = TRUE) square s.
flipSquare(p, s, v, add) ==
  LET c == colorOf(v)
      upd(bb) == IF add THEN bb \cup {s} ELSE bb \ {s}
  IN IF v = 0 THEN p
     ELSE IF isPieceVal(v)
       THEN [p EXCEPT !.pieceBB[c][pieceOf(v)] = upd(@),
                      !.piecesBB[c] = upd(@),
                      !.hash = Xor(@, pieceKey(c, pieceOf(v), s))]
       ELSE [p EXCEPT !.wallsBB[c] = upd(@),
                      !.wallsReinfBB[c] = IF wallHp(v) = 2 THEN upd(@) ELSE @,
                      !.hash = Xor(@, wallKey(c, wallHp(v) - 1, s))]

setSquareRaw(p, s, v) ==
  IF p.b[s] = v THEN p
  ELSE LET p1 == flipSquare(p, s, p.b[s], FALSE)
           p2 == [p1 EXCEPT !.b[s] = v]
       IN flipSquare(p2, s, v, TRUE)

\* ------------------------------------------------------------------ attacks
\* The squares one sliding piece attacks along one ray: everything up to and
\* including the first piece, walls excluded; pass(t) lets the scan continue.
rayAttacks(p, r, pass(_)) ==
  LET k == FirstIdx(r, LAMBDA t : isWallVal(p.b[t]) \/ (isPieceVal(p.b[t]) /\ ~pass(t)))
  IN {r[i] : i \in 1..(k - 1)} \cup (IF k <= Len(r) /\ isPieceVal(p.b[r[k]]) THEN {r[k]} ELSE {})

computeAttacks(p, us) ==
  LET dom == hasDominance(p, us)
      f == IF us = White THEN -1 ELSE 1
      noPass(t) == FALSE
      ownMason(t) == p.b[t] = makePiece(us, Mason)
      short(s, dir, max) == SubSeq(ray[s][dir], 1, Min(max, Len(ray[s][dir])))
      masonAtt == UNION {{sq(row(s) + f, col(s) + dc) : dc \in {d \in {-1, 1} :
                            inBounds(row(s) + f, col(s) + d) /\ ~isWallVal(p.b[sq(row(s) + f, col(s) + d)])}}
                         : s \in p.pieceBB[us][Mason]}
      pegAtt == UNION {{knightTargets[s][i] : i \in {j \in 1..Len(knightTargets[s]) :
                            ~isWallVal(p.b[knightTargets[s][j]])}}
                       : s \in p.pieceBB[us][Pegasus]}
      catAtt == UNION {rayAttacks(p, ray[x[1]][x[2]], noPass) : x \in p.pieceBB[us][Catapult] \X (0..3)}
      lanAtt == UNION {rayAttacks(p, ray[x[1]][x[2]], ownMason) : x \in p.pieceBB[us][Lancer] \X (4..7)}
      minAtt == UNION {rayAttacks(p, short(x[1], x[2], 2 + (IF dom /\ isKeepSq(x[1]) THEN 1 ELSE 0)), noPass)
                       : x \in p.pieceBB[us][Minister] \X (0..7)}
      sovAtt == IF p.wallTokens[us] <= 15
                THEN UNION {rayAttacks(p, short(x[1], x[2], 1 + (IF dom /\ isKeepSq(x[1]) THEN 1 ELSE 0)), noPass)
                            : x \in p.pieceBB[us][Sovereign] \X (0..7)}
                ELSE {}
  IN masonAtt \cup pegAtt \cup catAtt \cup lanAtt \cup minAtt \cup sovAtt

isSquareAttackedBy(p, attacker, square) ==
  IF square = SQ_NONE \/ isWallVal(p.b[square]) THEN FALSE
  ELSE
  LET f == IF attacker = White THEN -1 ELSE 1
      mr == row(square) - f
      has(t, pt) == p.b[t] = makePiece(attacker, pt)
      \* first non-empty square of a scan from `square`, or SQ_NONE
      firstHit(r, pass(_)) ==
        LET k == FirstIdx(r, LAMBDA t : p.b[t] # 0 /\ ~pass(t)) IN IF k <= Len(r) THEN k ELSE 0
      noPass(t) == FALSE
      ownMason(t) == has(t, Mason)
      byMason == mr >= 0 /\ mr < N /\
                 \E dc \in {-1, 1} : inBounds(mr, col(square) + dc) /\ has(sq(mr, col(square) + dc), Mason)
      byPegasus == \E i \in 1..Len(knightTargets[square]) : has(knightTargets[square][i], Pegasus)
      byCatapult == \E dir \in 0..3 :
                      LET r == ray[square][dir]  k == firstHit(r, noPass)
                      IN k # 0 /\ has(r[k], Catapult)
      byLancer == \E dir \in 4..7 :
                      LET r == ray[square][dir]  k == firstHit(r, ownMason)
                      IN k # 0 /\ has(r[k], Lancer)
      byRoyal == \E dir \in 0..7 :
                      LET r == SubSeq(ray[square][dir], 1, Min(3, Len(ray[square][dir])))
                          k == firstHit(r, noPass)
                      IN k # 0 /\ ( (has(r[k], Minister) /\ k <= ministerMoveRange(p, r[k], attacker))
                                 \/ (has(r[k], Sovereign) /\ k <= sovereignMoveRange(p, r[k], attacker)) )
  IN byMason \/ byPegasus \/ byCatapult \/ byLancer \/ byRoyal

\* Mutant: only walls of the other colour entomb.
isEntombedByEnemyWalls(p, victim) ==
  LET k == p.sovereignSq[victim]
  IN k # SQ_NONE /\ \A i \in 1..Len(kingTargets[k]) :
        isWallVal(p.b[kingTargets[k][i]]) /\ colorOf(p.b[kingTargets[k][i]]) = other(victim)

isEntombed(p, victim) ==
  LET k == p.sovereignSq[victim]
  IN k # SQ_NONE /\ \A i \in 1..Len(kingTargets[k]) : isWallVal(p.b[kingTargets[k][i]])

\* ---------------------------------------------------------- move generation
\* Destinations of a sliding piece along one ray, in scan order: empty squares up
\* to the first blocker, then the blocker if it is an enemy piece.
slideDests(p, r, us, pass(_)) ==
  LET k == FirstIdx(r, LAMBDA t : isWallVal(p.b[t]) \/ (isPieceVal(p.b[t]) /\ ~pass(t)))
  IN SelectSeq(SubSeq(r, 1, k - 1), LAMBDA t : p.b[t] = 0)
     \o (IF k <= Len(r) /\ isPieceVal(p.b[r[k]]) /\ colorOf(p.b[r[k]]) = other(us) THEN <<r[k]>> ELSE <<>>)

\* The Mason's forward-diagonal squares holding an enemy piece, left then right.
masonCaptures(p, fromSq, us) ==
  LET f == IF us = White THEN -1 ELSE 1
  IN SelectSeq(Targets(fromSq, << <<f, -1>>, <<f, 1>> >>),
               LAMBDA t : isPieceVal(p.b[t]) /\ colorOf(p.b[t]) = other(us))

genNormalMovesForPiece(p, fromSq, pt, us) ==
  LET noPass(t) == FALSE
      ownMason(t) == p.b[t] = makePiece(us, Mason)
      normal(dests) == [i \in 1..Len(dests) |-> Mv("Normal", fromSq, dests[i], SQ_NONE, SQ_NONE)]
      short(dir, max) == SubSeq(ray[fromSq][dir], 1, Min(max, Len(ray[fromSq][dir])))
      range(dirs, max) == Flatten([i \in 1..Len(dirs) |-> slideDests(p, short(dirs[i], max), us, noPass)])
      all8 == <<0, 1, 2, 3, 4, 5, 6, 7>>
  IN CASE pt = Mason ->
            LET fdir == IF us = White THEN 0 ELSE 1
                max == masonMoveRange(p, fromSq, us)
                ortho(dir) == LET r == short(dir, max)
                              IN SubSeq(r, 1, FirstIdx(r, LAMBDA t : p.b[t] # 0) - 1)
            IN normal(ortho(fdir) \o ortho(2) \o ortho(3) \o masonCaptures(p, fromSq, us))
       [] pt = Pegasus ->
            normal(SelectSeq(knightTargets[fromSq],
                     LAMBDA t : ~isWallVal(p.b[t]) /\ ~(isPieceVal(p.b[t]) /\ colorOf(p.b[t]) = us)))
       [] pt = Lancer ->
            normal(Flatten([i \in 1..4 |-> slideDests(p, ray[fromSq][i + 3], us, ownMason)]))
       [] pt = Minister -> normal(range(all8, ministerMoveRange(p, fromSq, us)))
       [] pt = Sovereign ->
            IF sovereignMoveRange(p, fromSq, us) <= 0 THEN <<>>
            ELSE normal(range(all8, sovereignMoveRange(p, fromSq, us)))
       [] OTHER -> <<>>

\* Mutant: DIRS4 with West written twice.
orthEmptiesTypo(p, s) ==
  SelectSeq(Targets(s, << <<-1, 0>>, <<1, 0>>, <<0, -1>>, <<0, -1>> >>), LAMBDA t : p.b[t] = 0)

\* The in-bounds orthogonal neighbours (DIRS4 order) of s that are empty in p.
orthEmpties(p, s) ==
  SelectSeq(Targets(s, SubSeq(DIRS8, 1, 4)), LAMBDA t : p.b[t] = 0)

\* The lambda considerCommandDest of genMasonExtras: the Command variants for one
\* destination, computed on the position with the Mason's step temporarily applied.
considerCommandDest(p, masonSq, destSq, us) ==
  LET them == other(us)
      dstV == p.b[destSq]
      cmd(aux) == Mv("MasonCommand", masonSq, destSq, aux, SQ_NONE)
      tmp == setSquareRaw(setSquareRaw(p, destSq, p.b[masonSq]), masonSq, 0)
      builds == IF ~p.wallBuiltLast[us] /\ ~isSquareAttackedBy(tmp, them, destSq)
                THEN orthEmpties(tmp, destSq) ELSE <<>>
  IN IF dstV = makePiece(them, Sovereign) THEN <<cmd(SQ_NONE)>>
     ELSE <<cmd(SQ_NONE)>> \o [i \in 1..Len(builds) |-> cmd(builds[i])]

genMasonExtras(p, masonSq, us, enemyAttacks) ==
  LET canBuild == ~p.wallBuiltLast[us]
      cons == IF canBuild /\ masonSq \notin enemyAttacks THEN orthEmpties(p, masonSq) ELSE <<>>
      construct == [i \in 1..Len(cons) |-> Mv("MasonConstruct", masonSq, cons[i], SQ_NONE, SQ_NONE)]
      eligible == \E i \in 1..Len(kingTargets[masonSq]) :
                     p.b[kingTargets[masonSq][i]] = makePiece(us, Minister)
      f == IF us = White THEN -1 ELSE 1
      orth == SelectSeq(Targets(masonSq, << <<f, 0>>, <<0, -1>>, <<0, 1>> >>), LAMBDA t : p.b[t] = 0)
      dests == orth \o masonCaptures(p, masonSq, us)
  IN IF ~eligible THEN construct
     ELSE construct \o Flatten([i \in 1..Len(dests) |-> considerCommandDest(p, masonSq, dests[i], us)])

genCatapultExtras(p, catSq, us) ==
  LET noPass(t) == FALSE
      ranged(dir) == LET r == ray[catSq][dir]
                         k == FirstIdx(r, LAMBDA t : p.b[t] # 0)
                     IN IF k <= Len(r) /\ isWallVal(p.b[r[k]])
                        THEN <<Mv("CatapultRangedDemolish", catSq, r[k], SQ_NONE, SQ_NONE)>> ELSE <<>>
      adjWalls(toSq) == SelectSeq(kingTargets[toSq], LAMBDA t : isWallVal(p.b[t]))
      variants(toSq) ==
        LET aux == IF p.b[toSq] # 0 /\ pieceOf(p.b[toSq]) = Sovereign THEN <<>> ELSE adjWalls(toSq)
        IN <<Mv("CatapultMove", catSq, toSq, SQ_NONE, SQ_NONE)>>
           \o [i \in 1..Len(aux) |-> Mv("CatapultMove", catSq, toSq, aux[i], SQ_NONE)]
      moves(dir) == LET d == slideDests(p, ray[catSq][dir], us, noPass)
                    IN Flatten([i \in 1..Len(d) |-> variants(d[i])])
  IN Flatten([i \in 1..4 |-> ranged(i - 1)]) \o Flatten([i \in 1..4 |-> moves(i - 1)])

\* Mutant: the inner loop starts at the first empty square, not after a.
bastionPairsOrdered(p, sovSq, us) ==
  LET mins == SelectSeq(kingTargets[sovSq], LAMBDA t : p.b[t] = makePiece(us, Minister))
      empties(ministerSq) == SelectSeq(kingTargets[ministerSq], LAMBDA t : t # sovSq /\ p.b[t] = 0)
      pairs(ministerSq) ==
        LET e == empties(ministerSq)
        IN IF Len(e) < 2 THEN <<>>
           ELSE Flatten([a \in 1..Len(e) |->
                   SelectSeq([k \in 1..Len(e) |-> Mv("Bastion", sovSq, ministerSq, e[a], e[k])],
                             LAMBDA m : m.aux1 # m.aux2)])
  IN Flatten([i \in 1..Len(mins) |-> pairs(mins[i])])

\* genBastion past its three guards: per adjacent Minister, every unordered pair
\* of empty neighbours of the Minister's square other than the Sovereign's.
bastionPairs(p, sovSq, us) ==
  LET mins == SelectSeq(kingTargets[sovSq], LAMBDA t : p.b[t] = makePiece(us, Minister))
      empties(ministerSq) == SelectSeq(kingTargets[ministerSq], LAMBDA t : t # sovSq /\ p.b[t] = 0)
      pairs(ministerSq) ==
        LET e == empties(ministerSq)
        IN IF Len(e) < 2 THEN <<>>
           ELSE Flatten([a \in 1..Len(e) |->
                   [k \in 1..(Len(e) - a) |-> Mv("Bastion", sovSq, ministerSq, e[a], e[a + k])]])
  IN Flatten([i \in 1..Len(mins) |-> pairs(mins[i])])

\* Mutant: Bastion ignores the wallBuiltLast flag.
genBastionNoFlag(p, sovSq, us) ==
  IF ~p.bastionRight[us] \/ p.wallTokens[us] > 15 THEN <<>> ELSE bastionPairs(p, sovSq, us)

genBastion(p, sovSq, us) ==
  IF p.wallBuiltLast[us] \/ ~p.bastionRight[us] \/ p.wallTokens[us] > 15 THEN <<>>
  ELSE bastionPairs(p, sovSq, us)

\* generateMoves past its gameOver() guard: every piece of the side to move.
genAllPieces(p) ==
  LET us == p.turn
      enemyAttacks == computeAttacks(p, other(us))
      each(pt, gen(_)) == LET ss == BBSeq(p.pieceBB[us][pt]) IN Flatten([i \in 1..Len(ss) |-> gen(ss[i])])
  IN each(Mason, LAMBDA s : genNormalMovesForPiece(p, s, Mason, us) \o genMasonExtras(p, s, us, enemyAttacks))
     \o each(Pegasus, LAMBDA s : genNormalMovesForPiece(p, s, Pegasus, us))
     \o each(Lancer, LAMBDA s : genNormalMovesForPiece(p, s, Lancer, us))
     \o each(Catapult, LAMBDA s : genCatapultExtras(p, s, us))
     \o each(Minister, LAMBDA s : genNormalMovesForPiece(p, s, Minister, us))
     \o each(Sovereign, LAMBDA s : genNormalMovesForPiece(p, s, Sovereign, us) \o genBastion(p, s, us))

\* Mutant: generateMoves without the gameOver() guard.
generateMovesUnguarded(p) == genAllPieces(p)

generateMoves(p) == IF gameOver(p) THEN <<>> ELSE genAllPieces(p)

\* generateNoisyMoves of the search: the moves quiescence tries, square by square.
generateNoisyMoves(p) ==
  IF gameOver(p) THEN <<>>
  ELSE
  LET us == p.turn
      them == other(us)
      dom == hasDominance(p, us)
      enemySov == p.sovereignSq[them]
      adjEnemy(t) == enemySov # SQ_NONE /\ \E i \in 1..Len(kingTargets[enemySov]) : kingTargets[enemySov][i] = t
      isEnemyPiece(v) == isPieceVal(v) /\ colorOf(v) = them
      noPass(t) == FALSE
      normal(from, dests) == [i \in 1..Len(dests) |-> Mv("Normal", from, dests[i], SQ_NONE, SQ_NONE)]
      short(from, dir, max) == SubSeq(ray[from][dir], 1, Min(max, Len(ray[from][dir])))
      \* the enemy piece a scan along r ends on, if it ends on one
      capture(r, pass(_)) ==
        LET k == FirstIdx(r, LAMBDA t : isWallVal(p.b[t]) \/ (isPieceVal(p.b[t]) /\ ~pass(t)))
        IN IF k <= Len(r) /\ isEnemyPiece(p.b[r[k]]) THEN <<r[k]>> ELSE <<>>
      adjWalls(toSq) == SelectSeq(kingTargets[toSq], LAMBDA t : isWallVal(p.b[t]))
      demolish(from, toSq) ==
        [i \in 1..Len(adjWalls(toSq)) |-> Mv("CatapultMove", from, toSq, adjWalls(toSq)[i], SQ_NONE)]
      mason(from) ==
        LET f == IF us = White THEN -1 ELSE 1
            caps == SelectSeq(Targets(from, << <<f, -1>>, <<f, 1>> >>), LAMBDA t : isEnemyPiece(p.b[t]))
            walls == IF enemySov = SQ_NONE THEN <<>>
                     ELSE SelectSeq(Targets(from, SubSeq(DIRS8, 1, 4)),
                                    LAMBDA t : adjEnemy(t) /\ p.b[t] = 0 /\ from \notin computeAttacks(p, them))
        IN normal(from, caps)
           \o [i \in 1..Len(walls) |-> Mv("MasonConstruct", from, walls[i], SQ_NONE, SQ_NONE)]
      sovereign(from) ==
        LET max == IF p.wallTokens[us] > 15 THEN 0 ELSE 1 + (IF dom /\ isKeepSq(from) THEN 1 ELSE 0)
            along(dir) ==
              LET r == short(from, dir, max)
                  k == FirstIdx(r, LAMBDA t : p.b[t] # 0)
              IN SelectSeq(SubSeq(r, 1, k - 1), LAMBDA t : isKeepSq(from) \/ isKeepSq(t))
                 \o (IF k <= Len(r) /\ isEnemyPiece(p.b[r[k]]) THEN <<r[k]>> ELSE <<>>)
        IN IF max <= 0 THEN <<>> ELSE normal(from, Flatten([i \in 1..8 |-> along(i - 1)]))
      catapult(from) ==
        LET ranged(dir) ==
              LET r == ray[from][dir]
                  k == FirstIdx(r, LAMBDA t : p.b[t] # 0)
              IN IF k <= Len(r) /\ isWallVal(p.b[r[k]])
                 THEN <<Mv("CatapultRangedDemolish", from, r[k], SQ_NONE, SQ_NONE)>> ELSE <<>>
            moves(dir) ==
              LET r == ray[from][dir]
                  k == FirstIdx(r, LAMBDA t : p.b[t] # 0)
              IN Flatten([i \in 1..(k - 1) |-> demolish(from, r[i])])
                 \o (IF k <= Len(r) /\ isEnemyPiece(p.b[r[k]])
                     THEN <<Mv("CatapultMove", from, r[k], SQ_NONE, SQ_NONE)>> \o demolish(from, r[k])
                     ELSE <<>>)
        IN Flatten([i \in 1..4 |-> ranged(i - 1)]) \o Flatten([i \in 1..4 |-> moves(i - 1)])
      piece(from) ==
        LET pt == pieceOf(p.b[from])
        IN CASE pt = Mason -> mason(from)
             [] pt = Pegasus -> normal(from, SelectSeq(knightTargets[from], LAMBDA t : isEnemyPiece(p.b[t])))
             [] pt = Lancer ->
                  normal(from, Flatten([i \in 1..4 |->
                     capture(ray[from][i + 3], LAMBDA t : p.b[t] = makePiece(us, Mason))]))
             [] pt = Minister ->
                  normal(from, Flatten([i \in 1..8 |->
                     capture(short(from, i - 1, 2 + (IF dom /\ isKeepSq(from) THEN 1 ELSE 0)), noPass)]))
             [] pt = Sovereign -> sovereign(from)
             [] pt = Catapult -> catapult(from)
             [] OTHER -> <<>>
      mine == SelectSeq([i \in 1..SQ_N |-> i - 1], LAMBDA t : isPieceVal(p.b[t]) /\ colorOf(p.b[t]) = us)
  IN Flatten([i \in 1..Len(mine) |-> piece(mine[i])])

\* ---------------------------------------------------------------- make / undo
\* Mutant: saveSquare without the search for an earlier record of the square.
saveSquareAlways(u, p, s) ==
  [u EXCEPT !.sq = Append(@, s), !.prev = Append(@, p.b[s])]

saveSquare(u, p, s) ==
  IF \E i \in 1..Len(u.sq) : u.sq[i] = s THEN u
  ELSE [u EXCEPT !.sq = Append(@, s), !.prev = Append(@, p.b[s])]

\* Mutant: the hit is debited to the colour that hit, not to the wall's owner.
hitWallByMover(p, wallSq) ==
  LET v == p.b[wallSq]
      owner == colorOf(v)
  IN IF ~isWallVal(v) THEN p
     ELSE [setSquareRaw(p, wallSq, IF wallHp(v) = 2 THEN makeWall(owner, 1) ELSE 0)
             EXCEPT !.wallTokens[p.turn] = @ - 1]

hitWall(p, wallSq) ==
  LET v == p.b[wallSq]
      owner == colorOf(v)
  IN IF ~isWallVal(v) THEN p
     ELSE IF wallHp(v) = 2
       THEN [setSquareRaw(p, wallSq, makeWall(owner, 1)) EXCEPT !.wallTokens[owner] = @ - 1]
       ELSE [setSquareRaw(p, wallSq, 0) EXCEPT !.wallTokens[owner] = @ - 1]

finalizeTurn(p) ==
  IF p.winner # SQ_NONE THEN p
  ELSE IF isEntombed(p, other(p.turn))
    THEN [p EXCEPT !.winner = p.turn, !.winReason = "Entombment", !.halfmove = 0]
    ELSE [p EXCEPT !.hash = Xor(@, turnKey),
                   !.turn = other(p.turn),
                   !.fullmove = IF p.turn = Black THEN @ + 1 ELSE @]

\* Mutant: the flag is written without XORing its key.
setWallBuiltLastNoKey(p, c, v) == [p EXCEPT !.wallBuiltLast[c] = v]

\* The lambda setWallBuiltLast of makeMove.
setWallBuiltLast(p, c, v) ==
  IF p.wallBuiltLast[c] = v THEN p
  ELSE [p EXCEPT !.hash = Xor(@, wallBuiltLastKey(c)), !.wallBuiltLast[c] = v]

\* Mutant: the Bastion right survives the Sovereign's move.
sovereignMovedKeepsRight(p, us, toSq) == [p EXCEPT !.sovereignSq[us] = toSq]

\* The Sovereign bookkeeping shared by the Normal, Bastion and capture paths:
\* the mover's Sovereign now stands on toSq and the Bastion right is spent.
sovereignMoved(p, us, toSq) ==
  LET p1 == [p EXCEPT !.sovereignSq[us] = toSq]
  IN IF p1.bastionRight[us]
     THEN [p1 EXCEPT !.hash = Xor(@, bastionKey(us)), !.bastionRight[us] = FALSE]
     ELSE p1

\* The step every moving action starts with: save both squares, put the piece on
\* `to`, empty `from`.  st = [p, u].
stepPiece(st, m) ==
  LET u2 == saveSquare(saveSquare(st.u, st.p, m.from), st.p, m.to)
      srcV == st.p.b[m.from]
  IN [p |-> setSquareRaw(setSquareRaw(st.p, m.to, srcV), m.from, 0), u |-> u2]

\* Mutant: the capture does not reset the halfmove clock.
captureSovereignKeepsClock(st, m) ==
  LET us == st.p.turn
      srcV == st.p.b[m.from]
      u2 == saveSquare(saveSquare(st.u, st.p, m.to), st.p, m.from)
      p1 == setSquareRaw(setSquareRaw(st.p, m.to, srcV), m.from, 0)
      p2 == IF isPieceVal(srcV) /\ pieceOf(srcV) = Sovereign THEN sovereignMoved(p1, us, m.to) ELSE p1
      p3 == [p2 EXCEPT !.sovereignSq[other(us)] = SQ_NONE, !.winner = us, !.winReason = "Regicide"]
  IN [p |-> setWallBuiltLast(p3, us, FALSE), u |-> u2]

\* The lambda captureSovereign of makeMove.
captureSovereign(st, m) ==
  LET us == st.p.turn
      srcV == st.p.b[m.from]
      u2 == saveSquare(saveSquare(st.u, st.p, m.to), st.p, m.from)
      p1 == setSquareRaw(setSquareRaw(st.p, m.to, srcV), m.from, 0)
      p2 == IF isPieceVal(srcV) /\ pieceOf(srcV) = Sovereign THEN sovereignMoved(p1, us, m.to) ELSE p1
      p3 == [p2 EXCEPT !.sovereignSq[other(us)] = SQ_NONE,
                       !.winner = us,
                       !.winReason = "Regicide",
                       !.halfmove = 0]
  IN [p |-> setWallBuiltLast(p3, us, FALSE), u |-> u2]

\* Mutant: every built wall has HP 1.
buildHpFlat(masonSq) == 1

\* The wall HP of a Mason build: by the Keep status of the square the Mason stands on.
buildHp(masonSq) == IF isKeepSq(masonSq) THEN 2 ELSE 1

\* Place a wall of colour us and the given hp on s (saving s first) and credit wallTokens.
placeWall(st, us, s, hp) ==
  LET u2 == saveSquare(st.u, st.p, s)
  IN [p |-> [setSquareRaw(st.p, s, makeWall(us, hp)) EXCEPT !.wallTokens[us] = @ + hp], u |-> u2]

\* The tail of every non-capturing branch: halfmove, wallBuiltLast, finalizeTurn.
endTurn(st, us, reset, built) ==
  LET p1 == [st.p EXCEPT !.halfmove = IF reset THEN 0 ELSE @ + 1]
  IN [p |-> finalizeTurn(setWallBuiltLast(p1, us, built)), u |-> st.u]

makeMove(p0, m) ==
  LET st0 == [p |-> [p0 EXCEPT !.history = Append(@, p0.hash)],
              u |-> [prevTurn |-> p0.turn,
                     prevBastionRight |-> p0.bastionRight,
                     prevWallBuiltLast |-> p0.wallBuiltLast,
                     prevSovereignSq |-> p0.sovereignSq,
                     prevWallTokens |-> p0.wallTokens,
                     prevHalfmove |-> p0.halfmove,
                     prevFullmove |-> p0.fullmove,
                     prevWinner |-> p0.winner,
                     prevWinReason |-> p0.winReason,
                     sq |-> <<>>, prev |-> <<>>]]
      us == p0.turn
      them == other(us)
      srcV == p0.b[m.from]
      dstV == p0.b[m.to]
      isCap == isPieceVal(dstV) /\ colorOf(dstV) = them
      capSov == isCap /\ pieceOf(dstV) = Sovereign
  IN IF gameOver(p0) THEN st0
     ELSE CASE m.type = "Normal" ->
                 IF capSov THEN captureSovereign(st0, m)
                 ELSE LET s1 == stepPiece(st0, m)
                          s2 == IF isPieceVal(srcV) /\ pieceOf(srcV) = Sovereign
                                THEN [s1 EXCEPT !.p = sovereignMoved(s1.p, us, m.to)] ELSE s1
                      IN endTurn(s2, us, isCap, FALSE)
            [] m.type = "MasonConstruct" ->
                 endTurn(placeWall(st0, us, m.to, buildHp(m.from)), us, TRUE, TRUE)
            [] m.type = "MasonCommand" ->
                 IF capSov THEN captureSovereign(st0, m)
                 ELSE LET s1 == stepPiece(st0, m)
                          didWall == m.aux1 # SQ_NONE
                          s2 == IF didWall THEN placeWall(s1, us, m.aux1, buildHp(m.to)) ELSE s1
                      IN endTurn(s2, us, isCap \/ didWall, didWall)
            [] m.type = "CatapultRangedDemolish" ->
                 endTurn([p |-> hitWall(st0.p, m.to), u |-> saveSquare(st0.u, st0.p, m.to)], us, TRUE, FALSE)
            [] m.type = "CatapultMove" ->
                 IF capSov THEN captureSovereign(st0, m)
                 ELSE LET s1 == stepPiece(st0, m)
                          didDemo == m.aux1 # SQ_NONE
                          s2 == IF didDemo
                                THEN [p |-> hitWall(s1.p, m.aux1), u |-> saveSquare(s1.u, s1.p, m.aux1)]
                                ELSE s1
                      IN endTurn(s2, us, isCap \/ didDemo, FALSE)
            [] m.type = "Bastion" ->
                 LET u2 == saveSquare(saveSquare(st0.u, st0.p, m.from), st0.p, m.to)
                     p1 == setSquareRaw(setSquareRaw(st0.p, m.to, srcV), m.from, dstV)
                     s1 == [p |-> sovereignMoved(p1, us, m.to), u |-> u2]
                     s2 == placeWall(placeWall(s1, us, m.aux1, 1), us, m.aux2, 1)
                 IN endTurn(s2, us, TRUE, TRUE)
            [] OTHER -> st0

RECURSIVE restoreSquares(_, _, _)
restoreSquares(p, u, i) ==
  IF i > Len(u.sq) THEN p ELSE restoreSquares(setSquareRaw(p, u.sq[i], u.prev[i]), u, i + 1)

undoMove(p, u) ==
  LET p1 == [restoreSquares(p, u, 1) EXCEPT
               !.turn = u.prevTurn,
               !.bastionRight = u.prevBastionRight,
               !.wallBuiltLast = u.prevWallBuiltLast,
               !.sovereignSq = u.prevSovereignSq,
               !.wallTokens = u.prevWallTokens,
               !.halfmove = u.prevHalfmove,
               !.fullmove = u.prevFullmove,
               !.winner = u.prevWinner,
               !.winReason = u.prevWinReason]
  IN IF p1.history # <<>>
     THEN [p1 EXCEPT !.hash = p1.history[Len(p1.history)],
                     !.history = SubSeq(@, 1, Len(@) - 1)]
     ELSE p1

\* Mutant: the pass is made on a finished game as well.
makeNullMoveAlways(p) ==
  [p |-> [p EXCEPT !.hash = Xor(@, turnKey),
                   !.turn = other(p.turn),
                   !.fullmove = IF p.turn = Black THEN @ + 1 ELSE @],
   u |-> [prevTurn |-> p.turn, prevFullmove |-> p.fullmove]]

makeNullMove(p) ==
  LET nu == [prevTurn |-> p.turn, prevFullmove |-> p.fullmove]
  IN IF gameOver(p) THEN [p |-> p, u |-> nu]
     ELSE [p |-> [p EXCEPT !.hash = Xor(@, turnKey),
                           !.turn = other(p.turn),
                           !.fullmove = IF p.turn = Black THEN @ + 1 ELSE @],
           u |-> nu]

undoNullMove(p, nu) ==
  [p EXCEPT !.hash = IF nu.prevTurn # p.turn THEN Xor(@, turnKey) ELSE @,
            !.turn = nu.prevTurn,
            !.fullmove = nu.prevFullmove]

\* ------------------------------------------------------------------- NNUE
\* The accumulator is the bias plus one row of ftW_ for every active feature.
\* It is kept here as the number of times each row has been added (rows that
\* were added and subtracted equally often are left out), so two accumulators
\* that are equal here are equal for every weight file, also in wrapping
\* 32-bit arithmetic.
kBoardChannels == 16
\* numeric_limits<uint32_t>::max(), the index of no feature: all bits set.
kNoFeature == -1
kFeatStmWhite == kBoardChannels * SQ_N + 0
kFeatBastionWhite == kBoardChannels * SQ_N + 1
kFeatBastionBlack == kBoardChannels * SQ_N + 2

featureIndex(s, raw) ==
  IF s >= SQ_N THEN kNoFeature
  ELSE IF raw = 0 THEN kNoFeature
  ELSE LET isWhite == raw > 0
           av == IF raw < 0 THEN -raw ELSE raw
       IN IF av >= 1 /\ av <= 6 THEN s * kBoardChannels + (IF isWhite THEN 0 ELSE 8) + (av - 1)
          ELSE IF av = 7 THEN s * kBoardChannels + (IF isWhite THEN 6 ELSE 14)
          ELSE IF av = 8 THEN s * kBoardChannels + (IF isWhite THEN 7 ELSE 15)
          ELSE kNoFeature

biasOnly == <<>>
rowCount(a, f) == IF f \in DOMAIN a THEN a[f] ELSE 0

\* acc.v[j] += d * ftW_[f * kHidden1 + j] for every j.
addRow(a, f, d) ==
  LET n == rowCount(a, f) + d
  IN [g \in (IF n = 0 THEN DOMAIN a \ {f} ELSE DOMAIN a \cup {f}) |-> IF g = f THEN n ELSE a[g]]

\* The loop over the squares of initAccumulator: one row for every square that
\* has a feature, added to a.
boardFeatures(a, p) ==
  LET feats == {featureIndex(s, p.b[s]) : s \in Squares} \ {kNoFeature}
  IN [g \in DOMAIN a \cup feats |->
        rowCount(a, g) + Cardinality({s \in Squares : featureIndex(s, p.b[s]) = g})]

addBit(a, feat, on) == IF on THEN addRow(a, feat, 1) ELSE a

initAccumulator(p) ==
  addBit(addBit(addBit(boardFeatures(biasOnly, p),
                       kFeatStmWhite, p.turn = White),
                kFeatBastionWhite, p.bastionRight[White]),
         kFeatBastionBlack, p.bastionRight[Black])

\* The loop over the changed squares of applyDeltaAfterMove.
RECURSIVE changedSquares(_, _, _, _)
changedSquares(a, pAfter, u, i) ==
  IF i > Len(u.sq) THEN a
  ELSE LET s == u.sq[i]
           oldRaw == u.prev[i]
           newRaw == pAfter.b[s]
           fOld == featureIndex(s, oldRaw)
           fNew == featureIndex(s, newRaw)
           a1 == IF oldRaw # 0 /\ fOld # kNoFeature THEN addRow(a, fOld, -1) ELSE a
           a2 == IF newRaw # 0 /\ fNew # kNoFeature THEN addRow(a1, fNew, 1) ELSE a1
       IN changedSquares(a2, pAfter, u, i + 1)

\* A global bit that went from prev to new.
flipBit(a, feat, prev, new) ==
  IF prev # new THEN addRow(a, feat, IF new THEN 1 ELSE -1) ELSE a

\* Mutant: the Bastion rights are left as they were.
applyDeltaAfterMoveKeepsRights(a, pAfter, u) ==
  flipBit(changedSquares(a, pAfter, u, 1), kFeatStmWhite, u.prevTurn = White, pAfter.turn = White)

applyDeltaAfterMove(a, pAfter, u) ==
  LET a1 == changedSquares(a, pAfter, u, 1)
      a2 == flipBit(a1, kFeatStmWhite, u.prevTurn = White, pAfter.turn = White)
      a3 == flipBit(a2, kFeatBastionWhite, u.prevBastionRight[White], pAfter.bastionRight[White])
  IN flipBit(a3, kFeatBastionBlack, u.prevBastionRight[Black], pAfter.bastionRight[Black])

applyDeltaAfterNullMove(a, pAfterNull, nu) ==
  flipBit(a, kFeatStmWhite, nu.prevTurn = White, pAfterNull.turn = White)

\* ---- int arithmetic (32 bits, two's complement)
INT_MAX == 2147483647
INT_MIN == -INT_MAX - 1

\* a + b leaves the range of int.
addOverflows(a, b) ==
  \/ b > 0 /\ a > INT_MAX - b
  \/ b < 0 /\ a < INT_MIN - b

\* a + b as the hardware adds: modulo 2^32.
wrapAdd(a, b) ==
  IF b > 0 /\ a > INT_MAX - b THEN ((a - INT_MAX) - 1) + ((b - INT_MAX) - 1)
  ELSE IF b < 0 /\ a < INT_MIN - b THEN ((a + INT_MAX) + 1) + ((b + INT_MAX) + 1)
  ELSE a + b

\* -x modulo 2^32.
wrapNeg(x) == IF x = INT_MIN THEN INT_MIN ELSE -x

\* 1 << s for s in 0..31: the sign bit for s = 31.
shl1(s) == IF s = 31 THEN INT_MIN ELSE 2^s

\* x >> s on an int, s in 0..31: the sign is shifted in.
sar(x, s) == IF s = 31 THEN (IF x < 0 THEN -1 ELSE 0) ELSE x \div (2^s)

\* NNUE::arshift(x, s): the value returned when int arithmetic wraps, and
\* whether the call overflowed an int on the way (-x, (1 << s) - 1 or neg + add),
\* which leaves its behaviour undefined.
arshift(x, s) ==
  IF s = 0 THEN [r |-> x, ub |-> FALSE]
  ELSE IF x >= 0 THEN [r |-> sar(x, s), ub |-> FALSE]
  ELSE LET neg == wrapNeg(x)
           add == wrapAdd(shl1(s), -1)
       IN [r |-> wrapNeg(sar(wrapAdd(neg, add), s)),
           ub |-> x = INT_MIN \/ s = 31 \/ addOverflows(neg, add)]


\* ------------------------------------------------------------ construction
\* A Position with the given raw squares and flags and everything else derived,
\* as fromFEN and initial() leave it (both end in rebuildDerived).
setup(placed, turn, rights, wallSeq, halfmove, fullmove) ==
  rebuildDerived(
    [b |-> [s \in Squares |-> IF s \in DOMAIN placed THEN placed[s] ELSE 0],
     turn |-> turn,
     bastionRight |-> rights,
     wallBuiltLast |-> wallSeq,
     sovereignSq |-> [c \in Colors |-> SQ_NONE],
     wallTokens |-> [c \in Colors |-> 0],
     halfmove |-> halfmove,
     fullmove |-> fullmove,
     winner |-> SQ_NONE,
     winReason |-> "None",
     pieceBB |-> [c \in Colors |-> [pt \in PieceTypes |-> {}]],
     piecesBB |-> [c \in Colors |-> {}],
     wallsBB |-> [c \in Colors |-> {}],
     wallsReinfBB |-> [c \in Colors |-> {}],
     hash |-> {},
     history |-> <<>>])

both(x) == [c \in Colors |-> x]

initial ==
  LET back == <<Catapult, Lancer, Pegasus, Minister, Sovereign, Minister, Pegasus, Lancer, Catapult>>
      placed == [s \in {t \in Squares : row(t) \in {0, 1, 7, 8}} |->
                   CASE row(s) = 8 -> makePiece(White, back[col(s) + 1])
                     [] row(s) = 7 -> makePiece(White, Mason)
                     [] row(s) = 0 -> makePiece(Black, back[col(s) + 1])
                     [] row(s) = 1 -> makePiece(Black, Mason)]
  IN setup(placed, White, both(TRUE), both(FALSE), 0, 1)

\* Middle-game and endgame positions the driver sets with `position fen ...`.
\* Storm: White, who built last turn, can take the Black Sovereign with a Mason
\* (plain or by Command) or with a Catapult.
fenStorm ==
  setup(sq(0, 4) :> makePiece(Black, Sovereign) @@ sq(2, 6) :> makePiece(Black, Mason)
        @@ sq(1, 3) :> makePiece(White, Mason) @@ sq(2, 3) :> makePiece(White, Minister)
        @@ sq(0, 0) :> makePiece(White, Catapult) @@ sq(1, 4) :> makeWall(White, 1)
        @@ sq(8, 4) :> makePiece(White, Sovereign),
        White, both(TRUE), [c \in Colors |-> c = White], 1, 20)

\* Tomb: Black can wall in the White Sovereign in the corner; Catapults of both
\* colours face walls of both colours and both strengths; Black may play Bastion.
fenTomb ==
  setup(sq(8, 0) :> makePiece(White, Sovereign) @@ sq(7, 0) :> makeWall(White, 1)
        @@ sq(7, 1) :> makeWall(Black, 2) @@ sq(8, 2) :> makePiece(Black, Mason)
        @@ sq(7, 7) :> makePiece(Black, Catapult) @@ sq(5, 1) :> makePiece(White, Catapult)
        @@ sq(5, 7) :> makeWall(White, 2) @@ sq(3, 1) :> makeWall(Black, 1)
        @@ sq(0, 4) :> makePiece(Black, Sovereign) @@ sq(0, 3) :> makePiece(Black, Minister),
        Black, [c \in Colors |-> c = Black], both(FALSE), 3, 31)

\* Keep: both Sovereigns in the Keep, next to each other; White Masons in and
\* beside the Keep with a Minister at hand.
fenKeep ==
  setup(sq(4, 4) :> makePiece(White, Sovereign) @@ sq(3, 5) :> makePiece(Black, Sovereign)
        @@ sq(4, 3) :> makePiece(White, Mason) @@ sq(6, 4) :> makePiece(White, Mason)
        @@ sq(5, 3) :> makePiece(White, Minister) @@ sq(2, 2) :> makePiece(Black, Lancer)
        @@ sq(1, 6) :> makePiece(Black, Pegasus),
        White, both(TRUE), both(FALSE), 1, 25)

\* Sixteen White walls of HP 1 and the White Sovereign behind them.
siegeLines ==
  [s \in {sq(6, c) : c \in 0..7} \cup {sq(5, c) : c \in 0..7} |-> makeWall(White, 1)]
  @@ sq(8, 8) :> makePiece(White, Sovereign)

\* Siege: White is down to the Sovereign and sixteen wall tokens.
fenSiege ==
  setup(siegeLines @@ sq(0, 4) :> makePiece(Black, Sovereign) @@ sq(3, 4) :> makePiece(Black, Mason),
        Black, both(FALSE), both(FALSE), 7, 60)

\* Stalled: the Siege position with White to move: no winner, and nothing to play.
fenStalled ==
  setup(siegeLines @@ sq(0, 4) :> makePiece(Black, Sovereign) @@ sq(3, 4) :> makePiece(Black, Mason),
        White, both(FALSE), both(FALSE), 8, 61)

\* Last Mason: White under Siege Attrition, having built last turn, has one Mason
\* left: two steps and the capture of the Black Sovereign.
fenLastMason ==
  setup(siegeLines @@ sq(2, 0) :> makePiece(White, Mason) @@ sq(1, 1) :> makePiece(Black, Sovereign),
        White, both(FALSE), [c \in Colors |-> c = White], 0, 40)

\* Corner: the Black Sovereign, walls on two sides, has one square to go to.
fenCorner ==
  setup(sq(0, 0) :> makePiece(Black, Sovereign) @@ sq(0, 1) :> makeWall(Black, 1)
        @@ sq(1, 1) :> makeWall(White, 2) @@ sq(8, 8) :> makePiece(White, Sovereign)
        @@ sq(8, 7) :> makePiece(White, Minister),
        Black, both(FALSE), [c \in Colors |-> c = Black], 2, 33)

\* Besieged: White holds sixteen wall tokens, the Bastion right, a Minister next
\* to the Sovereign with room around it, and a Mason; no wall was built last.
fenBesieged ==
  setup(siegeLines @@ sq(8, 7) :> makePiece(White, Minister) @@ sq(7, 2) :> makePiece(White, Mason)
        @@ sq(0, 4) :> makePiece(Black, Sovereign) @@ sq(1, 4) :> makePiece(Black, Mason),
        White, both(TRUE), both(FALSE), 4, 50)

\* Brink: fifteen tokens, a wall built by the Mason makes sixteen; two Ministers
\* beside the Sovereign, the Mason standing between them.
fenBrink ==
  setup([s \in DOMAIN siegeLines \ {sq(5, 0)} |-> siegeLines[s]]
        @@ sq(8, 7) :> makePiece(White, Minister) @@ sq(7, 8) :> makePiece(White, Minister)
        @@ sq(7, 7) :> makePiece(White, Mason)
        @@ sq(0, 4) :> makePiece(Black, Sovereign) @@ sq(1, 4) :> makePiece(Black, Mason),
        White, both(TRUE), both(FALSE), 4, 50)

\* Over: the Storm position after the White Mason has taken the Sovereign.
fenOver == makeMove(fenStorm, Mv("Normal", sq(1, 3), sq(0, 4), SQ_NONE, SQ_NONE)).p

\* Sixteen Black walls of HP 1.
blackLines == [s \in {sq(1, c) : c \in 0..7} \cup {sq(2, c) : c \in 0..7} |-> makeWall(Black, 1)]

\* Array: a White Lancer behind its own Mason and a Black Lancer behind the same
\* Mason; the White Sovereign and a White Minister in the Keep; Black, with
\* sixteen wall tokens, has its Sovereign and a Minister next to empty squares.
fenArray ==
  setup(blackLines @@ sq(7, 1) :> makePiece(White, Lancer) @@ sq(6, 2) :> makePiece(White, Mason)
        @@ sq(4, 4) :> makePiece(Black, Minister) @@ sq(3, 5) :> makePiece(Black, Lancer)
        @@ sq(4, 5) :> makePiece(White, Sovereign) @@ sq(5, 5) :> makePiece(White, Minister)
        @@ sq(3, 8) :> makePiece(Black, Sovereign) @@ sq(8, 8) :> makePiece(White, Catapult)
        @@ sq(7, 6) :> makePiece(White, Pegasus) @@ sq(6, 8) :> makeWall(White, 2)
        @@ sq(4, 1) :> makePiece(Black, Mason) @@ sq(5, 0) :> makePiece(Black, Catapult),
        White, both(FALSE), both(FALSE), 2, 33)

\* Command: two White Masons, each next to a White Minister; the first has a
\* Black Pegasus and a Black Mason on its forward diagonals, the second a Black
\* Lancer and the Black Sovereign.
fenCommand ==
  setup(sq(5, 3) :> makePiece(White, Mason) @@ sq(6, 3) :> makePiece(White, Minister)
        @@ sq(4, 2) :> makePiece(Black, Pegasus) @@ sq(4, 4) :> makePiece(Black, Mason)
        @@ sq(1, 6) :> makePiece(White, Mason) @@ sq(2, 6) :> makePiece(White, Minister)
        @@ sq(0, 5) :> makePiece(Black, Lancer) @@ sq(0, 7) :> makePiece(Black, Sovereign)
        @@ sq(8, 4) :> makePiece(White, Sovereign) @@ sq(3, 4) :> makePiece(Black, Minister)
        @@ sq(5, 2) :> makeWall(Black, 2),
        White, both(TRUE), both(FALSE), 0, 12)

\* ------------------------------------------------------------ position text
\* A std::string is a sequence of one-character strings.
DigitChars == <<"0", "1", "2", "3", "4", "5", "6", "7", "8", "9">>
UpperChars == <<"A", "B", "C", "D", "E", "F", "G", "H", "I", "J", "K", "L", "M",
               "N", "O", "P", "Q", "R", "S", "T", "U", "V", "W", "X", "Y", "Z">>
LowerChars == <<"a", "b", "c", "d", "e", "f", "g", "h", "i", "j", "k", "l", "m",
               "n", "o", "p", "q", "r", "s", "t", "u", "v", "w", "x", "y", "z">>
PieceLetters == <<"M", "C", "L", "P", "I", "S">>

indexIn(seq, ch) == FirstIdx(seq, LAMBDA x : x = ch)
isDigitChar(ch) == \E i \in 1..Len(DigitChars) : DigitChars[i] = ch
digitValue(ch) == indexIn(DigitChars, ch) - 1
isupper(ch) == \E i \in 1..Len(UpperChars) : UpperChars[i] = ch
islower(ch) == \E i \in 1..Len(LowerChars) : LowerChars[i] = ch
tolower(ch) == IF isupper(ch) THEN LowerChars[indexIn(UpperChars, ch)] ELSE ch
toupper(ch) == IF islower(ch) THEN UpperChars[indexIn(LowerChars, ch)] ELSE ch

\* operator<<(int) for a value that is not negative.
RECURSIVE formatInt(_)
formatInt(n) == IF n < 10 THEN <<DigitChars[n + 1]>> ELSE formatInt(n \div 10) \o <<DigitChars[(n % 10) + 1]>>

\* The letter toFEN writes for the raw value v of an occupied square.
squareChar(v) ==
  LET ch == IF isPieceVal(v) THEN PieceLetters[pieceOf(v) + 1]
            ELSE IF isWallVal(v) THEN (IF wallHp(v) = 2 THEN "R" ELSE "W")
            ELSE "?"
  IN IF v < 0 THEN tolower(ch) ELSE ch

\* The inner loop of toFEN over the files c.. of rank r, `empty` squares pending.
RECURSIVE rankText(_, _, _, _)
rankText(p, r, c, empty) ==
  IF c >= N THEN (IF empty # 0 THEN formatInt(empty) ELSE <<>>)
  ELSE LET v == p.b[sq(r, c)]
       IN IF v = 0 THEN rankText(p, r, c + 1, empty + 1)
          ELSE (IF empty # 0 THEN formatInt(empty) ELSE <<>>) \o <<squareChar(v)>>
               \o rankText(p, r, c + 1, 0)

RECURSIVE boardText(_, _)
boardText(p, r) ==
  IF r >= N THEN <<>>
  ELSE rankText(p, r, 0, 0) \o (IF r # N - 1 THEN <<"/">> ELSE <<>>) \o boardText(p, r + 1)

toFEN(p) ==
  LET rights == (IF p.bastionRight[White] THEN <<"B">> ELSE <<>>)
                \o (IF p.bastionRight[Black] THEN <<"b">> ELSE <<>>)
      wallSeq == (IF p.wallBuiltLast[White] THEN <<"w">> ELSE <<>>)
                 \o (IF p.wallBuiltLast[Black] THEN <<"b">> ELSE <<>>)
  IN boardText(p, 0) \o <<" ", IF p.turn = White THEN "w" ELSE "b", " ">>
     \o (IF rights = <<>> THEN <<"-">> ELSE rights) \o <<" ">>
     \o (IF wallSeq = <<>> THEN <<"-">> ELSE wallSeq) \o <<" ">>
     \o formatInt(p.halfmove) \o <<" ">> \o formatInt(p.fullmove)

\* std::istringstream: the characters not yet read and the fail bit.
openStream(text) == [rest |-> text, fail |-> FALSE]

skipSpaces(text) ==
  LET k == FirstIdx(text, LAMBDA ch : ch # " ") IN SubSeq(text, k, Len(text))

\* iss >> std::string: the next run of characters that are not spaces.
readWord(st) ==
  LET t == skipSpaces(st.rest)
      k == FirstIdx(t, LAMBDA ch : ch = " ")
  IN IF st.fail \/ t = <<>> THEN [ok |-> FALSE, word |-> <<>>, st |-> [st EXCEPT !.fail = TRUE]]
     ELSE [ok |-> TRUE, word |-> SubSeq(t, 1, k - 1), st |-> [st EXCEPT !.rest = SubSeq(t, k, Len(t))]]

RECURSIVE digitsValue(_, _)
digitsValue(text, accum) ==
  IF text = <<>> THEN accum ELSE digitsValue(Tail(text), accum * 10 + digitValue(Head(text)))

\* iss >> int: spaces, a sign, then digits as far as they go; no digit sets the fail bit.
readInt(st) ==
  LET t == skipSpaces(st.rest)
      signed == t # <<>> /\ Head(t) \in {"+", "-"}
      body == IF signed THEN Tail(t) ELSE t
      k == FirstIdx(body, LAMBDA ch : ~isDigitChar(ch))
      mag == digitsValue(SubSeq(body, 1, k - 1), 0)
  IN IF st.fail \/ k = 1 THEN [ok |-> FALSE, value |-> 0, st |-> [st EXCEPT !.fail = TRUE]]
     ELSE [ok |-> TRUE, value |-> IF signed /\ Head(t) = "-" THEN -mag ELSE mag,
           st |-> [st EXCEPT !.rest = SubSeq(body, k, Len(body))]]

\* The lambda isDigits of fromFEN.
isDigits(text) == text # <<>> /\ \A i \in 1..Len(text) : isDigitChar(text[i])

\* The loop of fromFEN over boardStr, for the characters of one rank (those
\* between two '/'): rk = [c, cells, err], cells the values by file.
RECURSIVE rankLoop(_, _, _, _)
rankLoop(text, i, r, rk) ==
  IF rk.err # "" \/ i > Len(text) THEN rk
  ELSE LET raw == text[i]
           isWhite == isupper(raw)
           ch == toupper(raw)
           colour == IF isWhite THEN White ELSE Black
           pt == indexIn(PieceLetters, ch) - 1
           v == IF pt < Len(PieceLetters) THEN makePiece(colour, pt)
                ELSE IF ch = "W" THEN makeWall(colour, 1)
                ELSE IF ch = "R" THEN makeWall(colour, 2)
                ELSE 0
       IN IF r >= N THEN [rk EXCEPT !.err = "too many ranks"]
          ELSE IF isDigitChar(raw) /\ raw # "0"
          THEN IF rk.c + digitValue(raw) > N THEN [rk EXCEPT !.err = "file overflow"]
               ELSE rankLoop(text, i + 1, r, [rk EXCEPT !.c = @ + digitValue(raw)])
          ELSE IF rk.c >= N THEN [rk EXCEPT !.err = "too many files in rank"]
          ELSE IF v = 0 THEN [rk EXCEPT !.err = "unknown piece"]
          ELSE rankLoop(text, i + 1, r, [rk EXCEPT !.cells = (rk.c :> v) @@ @, !.c = @ + 1])

\* The whole loop: the ranks in order, each closed by its '/' (which asks for 9
\* files) except the last; the first error ends it.  Result [r, c, b, err].
boardLoop(text) ==
  LET slashes == SelectSeq([i \in 1..Len(text) |-> i], LAMBDA i : text[i] = "/")
      count == Len(slashes) + 1
      from(k) == IF k = 1 THEN 1 ELSE slashes[k - 1] + 1
      to(k) == IF k = count THEN Len(text) ELSE slashes[k] - 1
      rank == [k \in 1..count |->
                 LET rk == rankLoop(SubSeq(text, from(k), to(k)), 1, k - 1,
                                    [c |-> 0, cells |-> <<>>, err |-> ""])
                 IN IF rk.err = "" /\ k < count /\ rk.c # N
                    THEN [rk EXCEPT !.err = "rank does not have 9 files"] ELSE rk]
      bad == FirstIdx(rank, LAMBDA rk : rk.err # "")
  IN [r |-> count - 1,
      c |-> rank[count].c,
      b |-> [s \in Squares |->
               IF row(s) + 1 <= count /\ col(s) \in DOMAIN rank[row(s) + 1].cells
               THEN rank[row(s) + 1].cells[col(s)] ELSE 0],
      err |-> IF bad <= count THEN rank[bad].err ELSE ""]

\* The result of fromFEN: a Position, or the exception thrown.
parsed(p) == [ok |-> TRUE, err |-> "", p |-> p]
thrown(msg) == [ok |-> FALSE, err |-> msg, p |-> <<>>]

\* fromFEN is given in the order of its statements: each operator takes what
\* has been read so far and reads the next field.
\* The end: the checks of the turn and the board, and the Position.
fenBuild(w2, bd, rights, wallSeq, halfmove, fullmove) ==
  IF ~w2.ok THEN thrown("expected <board> <turn> ...")
  ELSE IF w2.word = <<>> THEN thrown("empty turn field")
  ELSE IF tolower(w2.word[1]) \notin {"w", "b"} THEN thrown("turn must be 'w' or 'b'")
  ELSE IF bd.err # "" THEN thrown(bd.err)
  ELSE IF bd.r # N - 1 \/ bd.c # N THEN thrown("board must be 9 ranks of 9 files")
  ELSE parsed(setup([s \in {x \in Squares : bd.b[x] # 0} |-> bd.b[s]],
                    IF tolower(w2.word[1]) = "w" THEN White ELSE Black,
                    rights, wallSeq, halfmove, fullmove))

\* The flags: bastion rights from rightsStr, wallBuiltLast from wallStr.
fenFlags(w1, w2, rightsStr, wallStr, halfmove, fullmove) ==
  fenBuild(w2, boardLoop(w1.word),
           [c \in Colors |-> rightsStr # <<"-">>
                               /\ \E i \in 1..Len(rightsStr) : rightsStr[i] = (IF c = White THEN "B" ELSE "b")],
           [c \in Colors |-> wallStr # <<"-">>
                               /\ \E i \in 1..Len(wallStr) :
                                     tolower(wallStr[i]) = (IF c = White THEN "w" ELSE "b")],
           halfmove, fullmove)

\* fullmove: the next integer, or 1.
fenFullmove(w1, w2, w3, w4, direct, halfmove, f) ==
  fenFlags(w1, w2, IF w3.ok THEN w3.word ELSE <<"B", "b">>,
           IF w3.ok /\ w4.ok /\ ~direct THEN w4.word ELSE <<"-">>,
           halfmove, IF w3.ok /\ w4.ok /\ f.ok THEN f.value ELSE 1)

\* halfmove: the token itself when it is all digits, else the token is wallStr
\* and halfmove the next integer, or 0.
fenHalfmove(w1, w2, w3, w4, direct, h) ==
  fenFullmove(w1, w2, w3, w4, direct,
              IF ~(w3.ok /\ w4.ok) THEN 0
              ELSE IF direct THEN digitsValue(w4.word, 0)
              ELSE IF h.ok THEN h.value ELSE 0,
              readInt(IF direct THEN w4.st ELSE h.st))

fenToken(w1, w2, w3, w4) ==
  fenHalfmove(w1, w2, w3, w4, w3.ok /\ w4.ok /\ isDigits(w4.word), readInt(w4.st))
fenRights(w1, w2, w3) == fenToken(w1, w2, w3, readWord(w3.st))
fenTurn(w1, w2) == fenRights(w1, w2, readWord(w2.st))
fenBoard(w1) == fenTurn(w1, readWord(w1.st))

fromFEN(text) == fenBoard(readWord(openStream(text)))

\* ------------------------------------------------------------------ move.cpp
coordToString(s) ==
  IF s = SQ_NONE THEN <<"-", "-">> ELSE <<UpperChars[col(s) + 1], DigitChars[(N - row(s)) + 1]>>

moveToString(m) ==
  CASE m.type = "Normal" -> coordToString(m.from) \o coordToString(m.to)
    [] m.type = "MasonConstruct" ->
         <<"c", "o", "n", " ">> \o coordToString(m.from) \o <<"@">> \o coordToString(m.to)
    [] m.type = "MasonCommand" ->
         <<"c", "m", "d", " ">> \o coordToString(m.from) \o coordToString(m.to)
         \o (IF m.aux1 # SQ_NONE THEN <<"@">> \o coordToString(m.aux1) ELSE <<>>)
    [] m.type = "CatapultMove" ->
         <<"c", "a", "t", " ">> \o coordToString(m.from) \o coordToString(m.to)
         \o (IF m.aux1 # SQ_NONE THEN <<"x">> \o coordToString(m.aux1) ELSE <<>>)
    [] m.type = "CatapultRangedDemolish" ->
         <<"r", "d", " ">> \o coordToString(m.from) \o <<"x">> \o coordToString(m.to)
    [] m.type = "Bastion" ->
         <<"b", "a", "s", " ">> \o coordToString(m.from) \o <<"<", ">">> \o coordToString(m.to)
         \o <<"@">> \o coordToString(m.aux1) \o <<",">> \o coordToString(m.aux2)
    [] OTHER -> <<"?", "?">>

moveToPgnToken(m) == SelectSeq(moveToString(m), LAMBDA ch : ch # " ")

\* ------------------------------------------------------------ citadel_cli.cpp
toLowerCopy(text) == [i \in 1..Len(text) |-> tolower(text[i])]
normalizeToken(text) == toLowerCopy(SelectSeq(text, LAMBDA ch : ch # " "))
moveToUciToken(m) == normalizeToken(moveToString(m))

\* Mutant: a token that matches no move stands for the first move of the list.
matchTokenLax(moves, want) ==
  LET k1 == FirstIdx(moves, LAMBDA m : moveToUciToken(m) = want)
  IN IF moves = <<>> THEN [ok |-> FALSE, m |-> nullMove]
     ELSE [ok |-> TRUE, m |-> moves[IF k1 <= Len(moves) THEN k1 ELSE 1]]

\* The two passes of parseMoveToken over the moves generated.
matchToken(moves, want) ==
  LET k1 == FirstIdx(moves, LAMBDA m : moveToUciToken(m) = want)
      k2 == FirstIdx(moves, LAMBDA m : normalizeToken(moveToPgnToken(m)) = want)
  IN IF want = <<>> THEN [ok |-> FALSE, m |-> nullMove]
     ELSE IF k1 <= Len(moves) THEN [ok |-> TRUE, m |-> moves[k1]]
     ELSE IF k2 <= Len(moves) THEN [ok |-> TRUE, m |-> moves[k2]]
     ELSE [ok |-> FALSE, m |-> nullMove]

\* parseMoveToken: the move, or std::nullopt (ok = FALSE).
parseMoveToken(p, tok) == matchToken(generateMoves(p), normalizeToken(tok))

\* ---------------------------------------------------------------- search.cpp
INF == 1000000000
MATE == 100000000
MAX_PLY == 256
PollMask == 2047
\* Mutant: a win is worth the same at every distance from the root.
mateScoreFlat(ply) == MATE

mateScore(ply) == MATE - ply
scoreToTT(score, ply) ==
  IF score > MATE - 10000 THEN score + ply
  ELSE IF score < -MATE + 10000 THEN score - ply ELSE score
scoreFromTT(score, ply) ==
  IF score > MATE - 10000 THEN score - ply
  ELSE IF score < -MATE + 10000 THEN score + ply ELSE score
sameMove(a, b) ==
  a.type = b.type /\ a.from = b.from /\ a.to = b.to /\ a.aux1 = b.aux1 /\ a.aux2 = b.aux2

\* ---- move ordering
PIECE_VALUE_ORDER == <<100, 550, 350, 400, 450, 100000>>
MoveTypeIndex(t) ==
  CASE t = "Normal" -> 0 [] t = "MasonConstruct" -> 1 [] t = "MasonCommand" -> 2
    [] t = "CatapultMove" -> 3 [] t = "CatapultRangedDemolish" -> 4 [] t = "Bastion" -> 5

moveHeuristic(p, m) ==
  LET a == IF p.b[m.to] < 0 THEN -p.b[m.to] ELSE p.b[m.to]
      sc == CASE m.type \in {"Normal", "CatapultMove", "MasonCommand"} ->
                   IF a >= 1 /\ a <= 6 THEN 10000 + PIECE_VALUE_ORDER[a] ELSE 0
               [] m.type = "CatapultRangedDemolish" -> 8000
               [] m.type = "MasonConstruct" -> 6000
               [] OTHER -> 0
  IN sc + IF m.type \in {"CatapultMove", "MasonCommand"} /\ m.aux1 # SQ_NONE THEN 1000 ELSE 0

isQuietMove(p, m) == m.type = "Normal" /\ m.to # SQ_NONE /\ p.b[m.to] = 0

historyIndex(m) == (MoveTypeIndex(m.type) * SQ_N + m.from) * SQ_N + m.to

\* ctx.history is kept as the entries that are not zero.
historyScore(c, m) ==
  IF m.from >= SQ_N \/ m.to >= SQ_N THEN 0
  ELSE IF historyIndex(m) \in DOMAIN c.history THEN c.history[historyIndex(m)] ELSE 0

\* Mutant: the killer and history bonuses stay below every capture.
orderScoreCapturesFirst(p, m, ttBest, c, ply) ==
  IF ttBest.to # SQ_NONE /\ sameMove(m, ttBest) THEN 1000000000
  ELSE moveHeuristic(p, m)

\* c.killers is the pair ctx.killers[ply].
orderScore(p, m, ttBest, c, ply) ==
  IF ttBest.to # SQ_NONE /\ sameMove(m, ttBest) THEN 1000000000
  ELSE LET sc == moveHeuristic(p, m)
       IN IF isQuietMove(p, m)
          THEN sc + (IF sameMove(m, c.killers[1]) THEN 900000
                     ELSE IF sameMove(m, c.killers[2]) THEN 800000 ELSE 0)
                  + historyScore(c, m)
          ELSE sc

\* The move loop of negamax and searchRoot: at step i the first move with the
\* highest score among buf[i..] is swapped to place i and tried. The value is
\* the list in the order the moves are tried when no move cuts the loop short.
RECURSIVE selectionOrder(_, _, _)
selectionOrder(buf, scores, i) ==
  IF i > Len(buf) THEN buf
  ELSE LET top == CHOOSE j \in i..Len(buf) :
                    /\ \A k \in i..Len(buf) : scores[k] <= scores[j]
                    /\ \A k \in i..(j - 1) : scores[k] < scores[j]
           swap(q) == [q EXCEPT ![i] = q[top], ![top] = q[i]]
       IN selectionOrder(swap(buf), swap(scores), i + 1)

orderOf(p, moves, ttBest, c, ply) ==
  selectionOrder(moves, [i \in 1..Len(moves) |-> orderScore(p, moves[i], ttBest, c, ply)], 1)
triedOrder(p, ttBest, c, ply) == orderOf(p, generateMoves(p), ttBest, c, ply)
\* The search's own from-scratch key: squares, turn, bastion rights, wallBuiltLast.
\* Z.sq[s][zobristIndex(v)] for a non-empty square value v.
zobristKey(s, v) ==
  IF isPieceVal(v) THEN pieceKey(colorOf(v), pieceOf(v), s) ELSE wallKey(colorOf(v), wallHp(v) - 1, s)

hashPosition(p) ==
  (IF p.turn = Black THEN {turnKey} ELSE {})
    \cup {bastionKey(c) : c \in {x \in Colors : p.bastionRight[x]}}
    \cup {wallBuiltLastKey(c) : c \in {x \in Colors : p.wallBuiltLast[x]}}
    \cup {zobristKey(s, p.b[s]) : s \in {x \in Squares : p.b[x] # 0}}

\* The loop of hashAfterMake over the Undo's saved squares, from record i on.
RECURSIVE hashSquares(_, _, _, _)
hashSquares(h, p, u, i) ==
  IF i > Len(u.sq) THEN h
  ELSE LET s == u.sq[i]
           oldV == u.prev[i]
           newV == p.b[s]
           h1 == IF oldV # 0 THEN Xor(h, zobristKey(s, oldV)) ELSE h
           h2 == IF newV # 0 THEN Xor(h1, zobristKey(s, newV)) ELSE h1
       IN hashSquares(h2, p, u, i + 1)

\* The flag part of hashAfterMake: one key per flag that differs from the Undo.
hashFlags(h, p, u) ==
  LET h1 == IF u.prevBastionRight[White] # p.bastionRight[White] THEN Xor(h, bastionKey(White)) ELSE h
      h2 == IF u.prevBastionRight[Black] # p.bastionRight[Black] THEN Xor(h1, bastionKey(Black)) ELSE h1
      h3 == IF u.prevWallBuiltLast[White] # p.wallBuiltLast[White] THEN Xor(h2, wallBuiltLastKey(White)) ELSE h2
  IN IF u.prevWallBuiltLast[Black] # p.wallBuiltLast[Black] THEN Xor(h3, wallBuiltLastKey(Black)) ELSE h3

\* Mutant: the turn key is toggled on every move.
hashAfterMakeTurnFlip(h, p, u) ==
  hashFlags(Xor(hashSquares(h, p, u, 1), turnKey), p, u)

hashAfterMake(h, p, u) ==
  LET h1 == hashSquares(h, p, u, 1)
      h2 == IF u.prevTurn # p.turn THEN Xor(h1, turnKey) ELSE h1
  IN hashFlags(h2, p, u)

\* TTEntry{}: key 0 is the empty hash.
emptyEntry == [key |-> {}, score |-> 0, depth |-> 0, flag |-> "Exact", best |-> nullMove]

\* The flag of an entry: the value against the window the call began with.
ttFlag(best, alphaOrig, beta) ==
  IF best <= alphaOrig THEN "Upper" ELSE IF best >= beta THEN "Lower" ELSE "Exact"

\* Mutant: negamax writes its entry whatever the slot holds.
negamaxStoreAlways(e, key, depth, flag, score, best) ==
  [key |-> key, score |-> score, depth |-> depth, flag |-> flag, best |-> best]

\* The slot after negamax's store (search.cpp 1248-1259).
negamaxStore(e, key, depth, flag, score, best) ==
  IF e.key = {} \/ e.key = key \/ depth >= e.depth
  THEN [key |-> key, score |-> score, depth |-> depth, flag |-> flag, best |-> best]
  ELSE e

\* The slot after searchRoot's store (search.cpp 1337-1346).
rootStore(e, key, depth, flag, score, best) ==
  [key |-> key, score |-> score, depth |-> depth, flag |-> flag, best |-> best]
\* SearchOptions{} with its SearchLimits: depth 1, no node or time limit, no stop flag.
defaultOptions == [depth |-> 1, nodeLimit |-> 0, useTime |-> FALSE, useTT |-> TRUE, hasStop |-> FALSE,
                   hasInfo |-> FALSE]
\* SearchContext{}: the counters a search starts with.
newContext == [nodes |-> 0, aborted |-> FALSE]
\* SearchResult{}.
noResult == [best |-> nullMove, score |-> 0, nodes |-> 0]

\* Mutant: the limits are looked at every second poll period only.
shouldStopSparse(c, o, stop, past) ==
  LET abort(writes) == [r |-> TRUE, ctx |-> [c EXCEPT !.aborted = TRUE],
                        stop |-> IF writes /\ o.hasStop THEN TRUE ELSE stop]
  IN IF c.aborted THEN [r |-> TRUE, ctx |-> c, stop |-> stop]
     ELSE IF c.nodes % (2 * (PollMask + 1)) # 0 THEN [r |-> FALSE, ctx |-> c, stop |-> stop]
     ELSE IF o.hasStop /\ stop THEN abort(FALSE)
     ELSE IF o.nodeLimit # 0 /\ c.nodes >= o.nodeLimit THEN abort(TRUE)
     ELSE IF o.useTime /\ past THEN abort(TRUE)
     ELSE [r |-> FALSE, ctx |-> c, stop |-> stop]

\* SearchContext::shouldStop: r is the value returned; the context and the stop
\* flag come back as the call leaves them.
shouldStop(c, o, stop, past) ==
  LET abort(writes) == [r |-> TRUE, ctx |-> [c EXCEPT !.aborted = TRUE],
                        stop |-> IF writes /\ o.hasStop THEN TRUE ELSE stop]
  IN IF c.aborted THEN [r |-> TRUE, ctx |-> c, stop |-> stop]
     ELSE IF c.nodes % (PollMask + 1) # 0 THEN [r |-> FALSE, ctx |-> c, stop |-> stop]
     ELSE IF o.hasStop /\ stop THEN abort(FALSE)
     ELSE IF o.nodeLimit # 0 /\ c.nodes >= o.nodeLimit THEN abort(TRUE)
     ELSE IF o.useTime /\ past THEN abort(TRUE)
     ELSE [r |-> FALSE, ctx |-> c, stop |-> stop]

\* What a negamax call that visits k <= PollMask + 1 nodes does to the context:
\* every node is counted and then polls shouldStop, which looks at the limits
\* only at a multiple of PollMask + 1; an abort there ends the call at that node.
negamax(c, o, k, stop, past) ==
  LET P == ((c.nodes + k) \div (PollMask + 1)) * (PollMask + 1)
      all == [ctx |-> [c EXCEPT !.nodes = c.nodes + k], stop |-> stop]
      r == shouldStop([c EXCEPT !.nodes = P], o, stop, past)
  IN IF P > c.nodes /\ r.r THEN [ctx |-> r.ctx, stop |-> r.stop] ELSE all

\* Mutant: the fallback takes the TT move without looking it up in the root list.
fallbackUnchecked(rootMoves, bestMove, e, rootKey, useTT, eval) ==
  IF useTT /\ e.key = rootKey
  THEN [best |-> IF e.best.to # SQ_NONE THEN e.best ELSE bestMove, score |-> scoreFromTT(e.score, 0)]
  ELSE [best |-> rootMoves[1], score |-> eval]

\* Mutant: the fallback looks into the table whatever ctx.useTT says.
fallbackReadsTable(rootMoves, bestMove, e, rootKey, useTT, eval) ==
  IF e.key = rootKey
  THEN [best |-> IF e.best.to # SQ_NONE /\ \E i \in 1..Len(rootMoves) : sameMove(rootMoves[i], e.best)
                 THEN e.best ELSE bestMove,
        score |-> scoreFromTT(e.score, 0)]
  ELSE [best |-> rootMoves[1], score |-> eval]

\* searchBestMove when no depth was completed: the TT root entry if its key
\* matches (its move only if the root list holds it), else the first root move
\* with the static evaluation of the root.
fallback(rootMoves, bestMove, e, rootKey, useTT, eval) ==
  IF useTT /\ e.key = rootKey
  THEN [best |-> IF e.best.to # SQ_NONE /\ \E i \in 1..Len(rootMoves) : sameMove(rootMoves[i], e.best)
                 THEN e.best ELSE bestMove,
        score |-> scoreFromTT(e.score, 0)]
  ELSE [best |-> rootMoves[1], score |-> eval]

\* The locals of searchBestMove and of the searchRoot call in progress.
\* The UCI loop when it is not running (perft, play and the other drivers).
\* cpc is the command thread's place in uciLoop, cmd the command it is handling,
\* worker the std::thread object ("none": not joinable, "running": inside the
\* thread function, "finished": function returned, not yet joined), left the
\* number of input lines still to come, evalBackend and nnueLoaded the
\* evaluator, goes and mark the number of go commands so far and the length of
\* the output when the last one started its worker.
noUci == [cpc |-> "off", cmd |-> "", worker |-> "none", left |-> 0,
          evalBackend |-> "NNUE", nnueLoaded |-> FALSE, goes |-> 0, mark |-> 0]

\* searchBestMove is not being called twice in a row.
noTwin == [on |-> FALSE, run |-> 0, value |-> <<>>, first |-> noResult]

\* No call of negamax or quiescence is being followed.
noNode == [pc |-> "off"]
noLine == [pc |-> "off"]
noEval == [pc |-> "off"]

idleSearch ==
  [pc |-> "start", maxDepth |-> 1, rootMoves |-> <<>>, rootKey |-> {},
   curDepth |-> 1, alpha |-> -INF, beta |-> INF, window |-> 0,
   i |-> 1, rAlpha |-> -INF, rBestScore |-> -INF, rBestMove |-> nullMove,
   bestMove |-> nullMove, bestScore |-> -INF, prevScore |-> 0, lastCompletedDepth |-> 0,
   res |-> noResult,
   \* history kept for the properties: the slot as the search found it, the
   \* depths completed with their results, the static evaluation of the root
   ttAtStart |-> emptyEntry, completed |-> <<>>, evalRoot |-> 0,
   \* ctx.nodes when the caller first set the stop flag, -1 while it has not
   stopAt |-> -1]

\* ------------------------------------------------------------------ the game
\* A driver (perft, the search, the UCI loop) holds one Position and works on it
\* with makeMove/undoMove and makeNullMove/undoNullMove, properly nested.
MaxPly == 2

VARIABLES
  pos,      \* the Position
  stack,    \* the Undo / NullUndo records of the moves made and not yet undone, newest first
  plyLeft,  \* how many more moves the driver may make before it has to undo
  last,     \* the operation performed last: for a make, the move and the Position it was
            \* applied to; for an undo, the kind of move undone and the Position to restore
  opt,      \* the SearchOptions of the running searchBestMove call
  ctx,      \* its SearchContext: nodes, aborted
  sr,       \* its locals and those of searchRoot, with the position in the code (pc)
  tt,       \* the transposition-table slot ttSlot(rootKey)
  stopFlag, \* the caller's atomic stop flag (*opt.stop)
  clockPast, \* steady_clock::now() >= ctx.end
  ttAllocated, \* the process-wide table TT is not empty
  out,      \* what opt.onInfo was called with and, in the UCI loop, the lines sent
  uci,      \* the UCI loop: the command thread's position in it and the worker thread
  node,     \* one call of negamax or quiescence: its arguments, locals and place in the code
  twin,     \* two calls of searchBestMove in a row: which one runs, the result of the
            \* first, and the value and size of every subtree below the root
  acc,      \* the driver's NNUE accumulators, one per ply (nnueAcc[0..ply])
  line,     \* a text handed to the program and what came of it: a position string
            \* given to fromFEN, or the arguments of a UCI `position` command
  nn        \* one step of the network's evaluation: the operands of NNUE::arshift
            \* and what the call returned

gvars == <<stack, plyLeft, last, node, twin, acc, line, nn>>
svars == <<opt, ctx, sr, tt, stopFlag, clockPast, ttAllocated, out, uci>>
vars == <<pos, stack, plyLeft, last, opt, ctx, sr, tt, stopFlag, clockPast, ttAllocated, out, uci, node, twin,
          acc, line, nn>>

MoveSet(p) == LET g == generateMoves(p) IN {g[i] : i \in 1..Len(g)}

\* Moves a caller may hand to makeMove on a finished game.
ProbeMoves ==
  {Mv("Normal", sq(8, 4), sq(7, 4), SQ_NONE, SQ_NONE),
   Mv("MasonConstruct", sq(1, 3), sq(1, 2), SQ_NONE, SQ_NONE),
   Mv("CatapultMove", sq(0, 0), sq(1, 0), SQ_NONE, SQ_NONE)}

Roots == {initial, fenStorm, fenTomb, fenKeep, fenSiege, fenBesieged, fenBrink}

Init ==
  /\ pos \in Roots
  /\ stack = <<>>
  /\ plyLeft = (IF pos = initial THEN MaxPly - 1 ELSE MaxPly)
  /\ last = [op |-> "init", m |-> nullMove, before |-> pos, expect |-> pos]
  /\ opt = defaultOptions /\ ctx = newContext /\ sr = idleSearch
  /\ tt = emptyEntry /\ stopFlag = FALSE /\ clockPast = FALSE
  /\ ttAllocated = FALSE /\ out = <<>> /\ uci = noUci /\ node = noNode /\ twin = noTwin
  /\ acc = <<initAccumulator(pos)>> /\ line = noLine /\ nn = noEval

MakeMove ==
  /\ plyLeft > 0
  /\ \E m \in (IF gameOver(pos) THEN ProbeMoves ELSE MoveSet(pos)) :
       LET r == makeMove(pos, m)
       IN /\ pos' = r.p
          /\ stack' = <<[kind |-> "move", u |-> r.u, m |-> m, pre |-> pos]>> \o stack
          /\ last' = [op |-> "makeMove", m |-> m, before |-> pos, expect |-> pos]
          /\ acc' = Append(acc, applyDeltaAfterMove(acc[Len(acc)], r.p, r.u))
  /\ plyLeft' = plyLeft - 1
  /\ UNCHANGED <<svars, node, twin, line, nn>>

UndoMove ==
  /\ stack # <<>>
  /\ Head(stack).kind = "move"
  /\ pos' = undoMove(pos, Head(stack).u)
  /\ stack' = Tail(stack)
  /\ plyLeft' = plyLeft + 1
  /\ last' = [op |-> "undoMove", m |-> Mv(Head(stack).m.type, SQ_NONE, SQ_NONE, SQ_NONE, SQ_NONE),
               before |-> Head(stack).pre, expect |-> Head(stack).pre]
  /\ acc' = SubSeq(acc, 1, Len(acc) - 1)
  /\ UNCHANGED <<svars, node, twin, line, nn>>

MakeNullMove ==
  /\ plyLeft > 0
  /\ LET r == makeNullMove(pos)
     IN /\ pos' = r.p
        /\ stack' = <<[kind |-> "null", u |-> r.u, m |-> nullMove, pre |-> pos]>> \o stack
        /\ acc' = Append(acc, applyDeltaAfterNullMove(acc[Len(acc)], r.p, r.u))
  /\ plyLeft' = plyLeft - 1
  /\ last' = [op |-> "makeNullMove", m |-> nullMove, before |-> pos, expect |-> pos]
  /\ UNCHANGED <<svars, node, twin, line, nn>>

UndoNullMove ==
  /\ stack # <<>>
  /\ Head(stack).kind = "null"
  /\ pos' = undoNullMove(pos, Head(stack).u)
  /\ stack' = Tail(stack)
  /\ plyLeft' = plyLeft + 1
  /\ last' = [op |-> "undoNullMove", m |-> nullMove, before |-> Head(stack).pre, expect |-> Head(stack).pre]
  /\ acc' = SubSeq(acc, 1, Len(acc) - 1)
  /\ UNCHANGED <<svars, node, twin, line, nn>>

Next == MakeMove \/ UndoMove \/ MakeNullMove \/ UndoNullMove

Spec == Init /\ [][Next]_vars

\* ------------------------------------------------------------ searchBestMove
\* One call of searchBestMove(pos, opt), step by step; the caller may set the
\* stop flag and the clock may pass the deadline at any moment.
MaxDepth == 2
MaxNodes == 6144
ScoreStep == 300
\* Scores the subtree searches may return, and sizes of the subtrees searched.
Scores == {-ScoreStep, 0, ScoreStep}
NodeSteps == {1, PollMask + 1}
DepthChoices == {0, MaxDepth}

SearchRoots == {fenStalled, fenLastMason, fenCorner, fenOver}

\* What ttSlot(rootKey) may hold when the search starts: nothing, an entry of
\* another position, or an entry with the root's key whose move is a root move,
\* the null move, or (a full-key collision) a move of another position.
StaleEntries(p) ==
  LET k == hashPosition(p)
      g == generateMoves(p)
      e(key, best, score) == [key |-> key, score |-> score, depth |-> 1, flag |-> "Exact", best |-> best]
  IN {emptyEntry, e(Xor(k, turnKey), nullMove, 0), e(k, nullMove, 0),
      e(k, Mv("Normal", sq(4, 4), sq(4, 5), SQ_NONE, SQ_NONE), ScoreStep)}
     \cup {e(k, g[i], 0) : i \in 1..Len(g)}

InitSearch ==
  /\ pos \in SearchRoots
  /\ stack = <<>> /\ plyLeft = 0
  /\ last = [op |-> "init", m |-> nullMove, before |-> pos, expect |-> pos]
  /\ opt \in [depth : DepthChoices, nodeLimit : {0, PollMask + 1}, useTime : BOOLEAN,
              useTT : BOOLEAN, hasStop : BOOLEAN, hasInfo : {TRUE}]
  /\ ctx = newContext /\ sr = idleSearch
  /\ tt \in StaleEntries(pos)
  /\ stopFlag \in (IF opt.hasStop THEN BOOLEAN ELSE {FALSE})
  /\ clockPast = FALSE
  /\ ttAllocated = (tt # emptyEntry) /\ out = <<>> /\ uci = noUci /\ node = noNode /\ twin = noTwin
  /\ acc = <<>> /\ line = noLine /\ nn = noEval

\* Entry of searchBestMove up to the first iteration.
SearchStart ==
  /\ sr.pc = "start"
  /\ LET d == IF opt.depth <= 0 THEN 1 ELSE IF opt.depth > MAX_PLY - 1 THEN MAX_PLY - 1 ELSE opt.depth
         rootMoves == generateMoves(pos)
     IN sr' = IF rootMoves = <<>>
              THEN [sr EXCEPT !.pc = "done", !.maxDepth = d, !.res = noResult, !.ttAtStart = tt,
                              !.stopAt = IF stopFlag THEN 0 ELSE -1]
              ELSE [sr EXCEPT !.pc = "iter", !.maxDepth = d, !.rootMoves = rootMoves,
                              !.ttAtStart = tt, !.stopAt = IF stopFlag THEN 0 ELSE -1,
                              !.rootKey = hashPosition(pos),
                              !.bestMove = rootMoves[1], !.bestScore = -INF,
                              !.prevScore = 0, !.lastCompletedDepth = 0, !.curDepth = 1]
  /\ ctx' = newContext
  /\ ttAllocated' = (ttAllocated \/ opt.useTT)
  /\ UNCHANGED <<pos, gvars, opt, tt, stopFlag, clockPast, out, uci>>

\* The locals of searchRoot on entry, for the window [alpha, beta].
enterRoot(s, alpha, beta, window) ==
  [s EXCEPT !.pc = "root", !.alpha = alpha, !.beta = beta, !.window = window,
            !.i = 1, !.rAlpha = alpha, !.rBestScore = -INF, !.rBestMove = s.rootMoves[1]]

\* Head of the iterative-deepening loop: the loop test, the stop poll, the window.
IterTop ==
  /\ sr.pc = "iter"
  /\ LET r == shouldStop(ctx, opt, stopFlag, clockPast)
         window == IF sr.curDepth <= 2 THEN 140 ELSE 90
     IN IF sr.curDepth > sr.maxDepth
        THEN sr' = [sr EXCEPT !.pc = "finish"] /\ UNCHANGED <<ctx, stopFlag>>
        ELSE /\ ctx' = r.ctx
             /\ stopFlag' = r.stop
             /\ sr' = IF r.r THEN [sr EXCEPT !.pc = "finish"]
                      ELSE IF sr.curDepth > 1
                        THEN enterRoot(sr, sr.prevScore - window, sr.prevScore + window, window)
                        ELSE enterRoot(sr, -INF, INF, window)
  /\ UNCHANGED <<pos, gvars, opt, tt, clockPast, ttAllocated, out, uci>>

\* The body of searchRoot's loop after the child has been scored and the move undone.
rootStep(moves, m, score, aborted) ==
  LET better == score > sr.rBestScore
      a == IF score > sr.rAlpha THEN score ELSE sr.rAlpha
  IN IF aborted THEN [sr EXCEPT !.pc = "rootEnd", !.rootMoves = moves]
     ELSE [sr EXCEPT !.rootMoves = moves,
                     !.rBestScore = IF better THEN score ELSE @,
                     !.rBestMove = IF better THEN m ELSE @,
                     !.rAlpha = a,
                     !.i = @ + 1,
                     !.pc = IF a >= sr.beta \/ sr.i = Len(moves) THEN "rootEnd" ELSE "root"]

\* Mutant: negamax probes and stores the table whatever ctx.useTT says.
usesTableAlways(o) == TRUE

\* negamax and searchRoot read and write the table only under ctx.useTT.
usesTable(o) == o.useTT

\* What a subtree below the root can return and how many nodes it can count.
\* Without the table both are fixed by the Position, the depth, the window and
\* the killer and history tables, all of which the search itself determines:
\* when two calls are compared they are given by twin.value.  With the table
\* they depend on what is in it as well, which is left open.
subtreeValues(m, depth) ==
  IF twin.on /\ ~usesTable(opt) THEN {twin.value[<<m, depth>>]} ELSE Scores
subtreeNodes == IF twin.on THEN {1} ELSE NodeSteps

\* One pass of searchRoot's loop: select the next move (the TT move first, the
\* others by ordering scores this model leaves open), make it, score the child,
\* undo it.
RootMove ==
  /\ sr.pc = "root"
  /\ LET moves == sr.rootMoves
         ttBest == IF usesTable(opt) /\ tt.key = sr.rootKey THEN tt.best ELSE nullMove
         rest == sr.i..Len(moves)
         first(j) == (ttBest.to # SQ_NONE /\ \E x \in rest : sameMove(moves[x], ttBest))
                        => sameMove(moves[j], ttBest)
     IN \E j \in rest :
          /\ first(j)
          /\ (twin.on /\ ttBest.to = SQ_NONE) => j = sr.i
          /\ LET swapped == [moves EXCEPT ![sr.i] = moves[j], ![j] = moves[sr.i]]
                 m == swapped[sr.i]
                 made == makeMove(pos, m)
             IN /\ pos' = undoMove(made.p, made.u)
                /\ IF gameOver(made.p)
                   THEN /\ sr' = rootStep(swapped, m, mateScore(1), ctx.aborted)
                        /\ UNCHANGED <<ctx, stopFlag>>
                   ELSE \E k \in subtreeNodes, score \in subtreeValues(m, sr.curDepth) :
                          /\ ctx.nodes + k <= MaxNodes
                          /\ LET n == negamax(ctx, opt, k, stopFlag, clockPast)
                             IN /\ ctx' = n.ctx
                                /\ stopFlag' = n.stop
                                /\ sr' = rootStep(swapped, m, score, n.ctx.aborted)
  /\ UNCHANGED <<gvars, opt, tt, clockPast, ttAllocated, out, uci>>

\* Mutant: the callback is also made when the iteration was aborted.
onInfoDueAborted(s, aborted, o) ==
  o.hasInfo /\ (s.curDepth = 1 \/ (s.rBestScore > s.alpha /\ s.rBestScore < s.beta))

\* searchBestMove reaches the call of ctx.onInfo: the aspiration loop was left
\* without an abort, and a callback is set.
onInfoDue(s, aborted, o) ==
  o.hasInfo /\ ~aborted /\ (s.curDepth = 1 \/ (s.rBestScore > s.alpha /\ s.rBestScore < s.beta))

\* The end of searchRoot (the root TT store) and what searchBestMove does with
\* the result: leave on abort, widen the aspiration window, or complete the depth.
RootDone ==
  /\ sr.pc = "rootEnd"
  /\ tt' = IF opt.useTT
           THEN [key |-> sr.rootKey, depth |-> sr.curDepth,
                 flag |-> IF sr.rBestScore <= sr.alpha THEN "Upper"
                          ELSE IF sr.rBestScore >= sr.beta THEN "Lower" ELSE "Exact",
                 score |-> scoreToTT(sr.rBestScore, 0), best |-> sr.rBestMove]
           ELSE tt
  /\ sr' = IF ctx.aborted THEN [sr EXCEPT !.pc = "finish"]
           ELSE IF sr.curDepth # 1 /\ sr.rBestScore <= sr.alpha
             THEN enterRoot(sr, -INF, sr.rBestScore + sr.window * 2, sr.window * 2)
           ELSE IF sr.curDepth # 1 /\ sr.rBestScore >= sr.beta
             THEN enterRoot(sr, sr.rBestScore - sr.window * 2, INF, sr.window * 2)
           ELSE [sr EXCEPT !.pc = "iter",
                           !.bestMove = sr.rBestMove, !.bestScore = sr.rBestScore,
                           !.prevScore = sr.rBestScore, !.lastCompletedDepth = sr.curDepth,
                           !.completed = Append(@, [depth |-> sr.curDepth, best |-> sr.rBestMove,
                                                    score |-> sr.rBestScore]),
                           !.curDepth = @ + 1]
  /\ out' = IF onInfoDue(sr, ctx.aborted, opt)
            THEN Append(out, [line |-> "info", depth |-> sr.curDepth, score |-> sr.rBestScore,
                              nodes |-> ctx.nodes, best |-> sr.rBestMove])
            ELSE out
  /\ UNCHANGED <<pos, gvars, opt, ctx, stopFlag, clockPast, ttAllocated, uci>>

\* After the loop: the fallback when no depth was completed, and the result.
Finish ==
  /\ sr.pc = "finish"
  /\ \E eval \in Scores :
       LET f == IF sr.lastCompletedDepth = 0
                THEN fallback(sr.rootMoves, sr.bestMove, tt, sr.rootKey, opt.useTT, eval)
                ELSE [best |-> sr.bestMove, score |-> sr.bestScore]
       IN sr' = [sr EXCEPT !.pc = "done", !.bestMove = f.best, !.bestScore = f.score,
                           !.evalRoot = eval,
                           !.res = [best |-> f.best, score |-> f.score, nodes |-> ctx.nodes]]
  /\ UNCHANGED <<pos, gvars, opt, ctx, tt, stopFlag, clockPast, ttAllocated, out, uci>>

\* The caller sets the stop flag (stop->store(true)), for the first time or again.
SetStop ==
  /\ opt.hasStop /\ sr.pc # "done"
  /\ stopFlag' = TRUE
  /\ sr' = IF stopFlag \/ sr.pc = "start" THEN sr ELSE [sr EXCEPT !.stopAt = ctx.nodes]
  /\ UNCHANGED <<pos, gvars, opt, ctx, tt, clockPast, ttAllocated, out, uci>>

\* The clock reaches the deadline.
TimePasses ==
  /\ opt.useTime /\ ~clockPast /\ sr.pc # "done"
  /\ clockPast' = TRUE
  /\ UNCHANGED <<pos, gvars, opt, ctx, sr, tt, stopFlag, ttAllocated, out, uci>>

NextSearch == SearchStart \/ IterTop \/ RootMove \/ RootDone \/ Finish \/ SetStop \/ TimePasses

SpecSearch == InitSearch /\ [][NextSearch]_vars

\* The search thread keeps running: searchBestMove is straight-line code and
\* loops that the thread executes without waiting for anything.  For the two
\* steps that generate or make moves weak fairness is written out: StepReady
\* implies that the step is enabled, and StepTaken holds of exactly the steps
\* SearchStart and RootMove, the only ones that leave "start" or move the root
\* loop.
SearchGlue == IterTop \/ RootDone \/ Finish
StepReady == sr.pc = "start" \/ (sr.pc = "root" /\ ctx.nodes < MaxNodes)
StepTaken ==
  \/ sr.pc = "start" /\ sr'.pc # "start"
  \/ sr.pc = "root" /\ (sr'.i # sr.i \/ sr'.pc # "root")
SearchRuns == WF_vars(SearchGlue) /\ ([]<>(~StepReady) \/ []<><<StepTaken>>_vars)

\* The searches a caller can stop: a stop flag is passed, the slot starts empty.
InitStop == InitSearch /\ opt.hasStop /\ tt = emptyEntry /\ pos \in {fenLastMason, fenCorner}
SpecStop == InitStop /\ [][NextSearch]_vars /\ SearchRuns

\* Two calls of searchBestMove in a row on the same Position with the same
\* options and no limit; the table, empty or with an entry for the root before
\* the first call, keeps what the first call left in it.
TwinRoots == {fenLastMason, fenCorner}

InitTwin ==
  /\ pos \in TwinRoots
  /\ stack = <<>> /\ plyLeft = 0
  /\ last = [op |-> "init", m |-> nullMove, before |-> pos, expect |-> pos]
  /\ opt \in [depth : {1, MaxDepth}, nodeLimit : {0}, useTime : {FALSE},
              useTT : BOOLEAN, hasStop : {FALSE}, hasInfo : {TRUE}]
  /\ ctx = newContext /\ sr = idleSearch
  /\ tt \in {e \in StaleEntries(pos) :
                e = emptyEntry \/ (e.key = hashPosition(pos) /\ e.best = generateMoves(pos)[1])}
  /\ stopFlag = FALSE /\ clockPast = FALSE
  /\ ttAllocated = (tt # emptyEntry) /\ out = <<>> /\ uci = noUci /\ node = noNode /\ acc = <<>> /\ line = noLine /\ nn = noEval
  /\ twin \in [on : {TRUE}, run : {1}, first : {noResult},
               value : [MoveSet(pos) \X (1..MaxDepth) -> Scores]]

\* The first call has returned; the caller calls searchBestMove again.
Restart ==
  /\ twin.on /\ twin.run = 1 /\ sr.pc = "done"
  /\ twin' = [twin EXCEPT !.run = 2, !.first = sr.res]
  /\ sr' = idleSearch /\ ctx' = newContext /\ out' = <<>>
  /\ UNCHANGED <<pos, stack, plyLeft, last, acc, line, nn, node, opt, tt, stopFlag, clockPast, ttAllocated, uci>>

NextTwin == SearchStart \/ IterTop \/ RootMove \/ RootDone \/ Finish \/ Restart

SpecTwin == InitTwin /\ [][NextTwin]_vars

\* ---------------------------------------------------------------------------
\* search.cpp: one call of negamax or quiescence at a non-root node, followed
\* through its code.  What the call gets from elsewhere is left open: the
\* arguments, the poll, the Position's answers, the static evaluation, the
\* table entry, and the score of each child.
\* ---------------------------------------------------------------------------
QS_MAX_DEPTH == 4
MaxKids == 2

max(a, b) == IF a > b THEN a ELSE b
min(a, b) == IF a < b THEN a ELSE b

NodePlies == {1, MAX_PLY - 1, MAX_PLY}
NodeDepths == 0..3
NodeBounds == {-INF, -ScoreStep, 1 - ScoreStep, 0, 1, ScoreStep, INF}
NodeEvals == {-4 * ScoreStep, -ScoreStep, 0, ScoreStep, 4 * ScoreStep}
ChildScores(ply) == {-mateScore(ply + 2), -ScoreStep, 0, ScoreStep, mateScore(ply + 1)}
TTHits == [depth : {1, 3}, flag : {"Exact", "Lower", "Upper"},
           score : {-mateScore(3), -ScoreStep, 0, ScoreStep}]

\* The calls that searchRoot's tree contains: the depth left and the ply add up
\* to at most the clamped maxDepth (MAX_PLY - 1), quiescence goes at most
\* QS_MAX_DEPTH plies further, and a Position that is a repetition has been
\* moved from before, so its move list is not empty (hasMoves).
InitNode ==
  /\ pos = initial /\ stack = <<>> /\ plyLeft = 0
  /\ last = [op |-> "init", m |-> nullMove, before |-> pos, expect |-> pos]
  /\ opt = defaultOptions /\ ctx = newContext /\ sr = idleSearch
  /\ tt = emptyEntry /\ stopFlag = FALSE /\ clockPast = FALSE
  /\ ttAllocated = FALSE /\ out = <<>> /\ uci = noUci /\ twin = noTwin /\ acc = <<>> /\ line = noLine /\ nn = noEval
  /\ \E fn \in {"negamax", "quiescence"}, ply \in NodePlies, depth \in NodeDepths,
        qDepth \in {0, QS_MAX_DEPTH - 1, QS_MAX_DEPTH}, alpha \in NodeBounds, beta \in NodeBounds,
        pvNode \in BOOLEAN, rep \in BOOLEAN, useNNUE \in BOOLEAN, ev \in NodeEvals,
        hasMoves \in BOOLEAN :
       /\ alpha < beta
       /\ rep => hasMoves
       /\ IF fn = "negamax"
          THEN ply + depth <= MAX_PLY - 1 /\ qDepth = QS_MAX_DEPTH
          ELSE ply + qDepth <= MAX_PLY - 1 + QS_MAX_DEPTH /\ depth = 0 /\ ~pvNode
       /\ node = [pc |-> "enter", fn |-> fn, ply |-> ply, depth |-> depth, qDepth |-> qDepth,
                  alpha |-> alpha, beta |-> beta, pvNode |-> pvNode, rep |-> rep,
                  useNNUE |-> useNNUE, ev |-> ev, hasMoves |-> hasMoves,
                  floor |-> FALSE, best |-> -INF, left |-> 0, ret |-> 0, via |-> ""]

\* A return statement; when negamax called quiescence with depth <= 0 and a
\* draw can be claimed, the caller's max(0, q) is applied to the value.
leave(n, v, path) == [n EXCEPT !.pc = "ret", !.ret = IF n.floor THEN max(0, v) ELSE v, !.via = path]

canClaimDraw(n) == n.ply > 0 /\ n.rep

\* negamax up to the table probe: the call of quiescence at depth <= 0, the
\* poll, game over, MAX_PLY, the draw claim, mate-distance pruning.
NegamaxEnter ==
  /\ node.pc = "enter" /\ node.fn = "negamax"
  /\ \E stopped \in BOOLEAN, over \in BOOLEAN :
       node' =
         IF node.depth <= 0
         THEN [node EXCEPT !.fn = "quiescence", !.floor = canClaimDraw(node)]
         ELSE IF stopped THEN leave(node, 0, "abort")
         ELSE IF over THEN leave(node, mateScore(node.ply), "game over")
         ELSE IF node.ply >= MAX_PLY THEN leave(node, node.ev, "max ply")
         ELSE LET best == IF canClaimDraw(node) THEN 0 ELSE -INF
                  a1 == IF canClaimDraw(node) THEN max(node.alpha, 0) ELSE node.alpha
                  a2 == max(a1, -MATE + node.ply)
                  b2 == min(node.beta, MATE - node.ply - 1)
              IN IF canClaimDraw(node) /\ a1 >= node.beta THEN leave(node, best, "draw claim")
                 ELSE IF a2 >= b2 THEN leave(node, a2, "mate distance")
                 ELSE [node EXCEPT !.pc = "probe", !.best = best, !.alpha = a2, !.beta = b2]
  /\ UNCHANGED <<pos, stack, plyLeft, last, acc, line, nn, svars, twin>>

\* The transposition-table probe.
NegamaxProbe ==
  /\ node.pc = "probe"
  /\ \/ node' = [node EXCEPT !.pc = "prune"]
     \/ \E e \in TTHits :
          LET s == scoreFromTT(e.score, node.ply)
              ttScore == IF canClaimDraw(node) /\ s < 0 THEN 0 ELSE s
          IN node' =
               IF e.depth < node.depth THEN [node EXCEPT !.pc = "prune"]
               ELSE IF e.flag = "Exact" /\ (~canClaimDraw(node) \/ ttScore # 0)
                 THEN leave(node, ttScore, "tt exact")
               ELSE IF e.flag = "Lower" /\ ttScore >= node.beta THEN leave(node, ttScore, "tt lower")
               ELSE IF e.flag = "Upper" /\ ttScore <= node.alpha THEN leave(node, ttScore, "tt upper")
               ELSE [node EXCEPT !.pc = "prune"]
  /\ UNCHANGED <<pos, stack, plyLeft, last, acc, line, nn, svars, twin>>

\* Razoring, reverse futility pruning, null-move pruning, and the move list.
NegamaxPrune ==
  /\ node.pc = "prune"
  /\ \E enough \in BOOLEAN, nullScore \in ChildScores(node.ply), aborted \in BOOLEAN,
        kids \in 1..MaxKids :
       LET shallow == ~node.pvNode /\ node.depth <= 2 /\ ~node.useNNUE
           nullDepth == IF node.useNNUE THEN 4 ELSE 3
       IN node' =
            IF shallow /\ node.ev + 220 + (node.depth - 1) * 180 <= node.alpha
            THEN [node EXCEPT !.pc = "enter", !.fn = "quiescence", !.qDepth = QS_MAX_DEPTH]
            ELSE IF shallow /\ node.ev - (160 + node.depth * 120) >= node.beta
              THEN leave(node, node.ev, "reverse futility")
            ELSE IF ~node.pvNode /\ node.depth >= nullDepth /\ node.ply > 0 /\ enough /\ aborted
              THEN leave(node, 0, "abort")
            ELSE IF ~node.pvNode /\ node.depth >= nullDepth /\ node.ply > 0 /\ enough
                    /\ nullScore >= node.beta
              THEN leave(node, node.beta, "null move")
            ELSE IF ~node.hasMoves THEN leave(node, node.ev, "empty move list")
            ELSE [node EXCEPT !.pc = "loop", !.left = kids]
  /\ UNCHANGED <<pos, stack, plyLeft, last, acc, line, nn, svars, twin>>

\* One pass of the move loop: the move is skipped (futility at depth 1, late
\* move pruning at depth 2 for a move late in the list), or made and searched.
NegamaxChild ==
  /\ node.pc = "loop" /\ node.fn = "negamax"
  /\ \E quiet \in BOOLEAN, late \in BOOLEAN, score \in ChildScores(node.ply), aborted \in BOOLEAN :
       LET futile == ~node.pvNode /\ node.depth = 1 /\ quiet
                       /\ node.ev + (IF node.useNNUE THEN 340 ELSE 220) <= node.alpha
           pruned == ~node.pvNode /\ node.depth = 2 /\ quiet /\ late
                       /\ node.ev + (IF node.useNNUE THEN 200 ELSE 140) <= node.alpha
           best == max(node.best, score)
           a == max(node.alpha, best)
       IN node' =
            IF futile \/ pruned
            THEN IF node.left = 1 THEN leave(node, node.best, "move loop")
                 ELSE [node EXCEPT !.left = @ - 1]
            ELSE IF aborted THEN leave(node, 0, "abort")
            ELSE IF a >= node.beta \/ node.left = 1 THEN leave(node, best, "move loop")
            ELSE [node EXCEPT !.best = best, !.alpha = a, !.left = @ - 1]
  /\ UNCHANGED <<pos, stack, plyLeft, last, acc, line, nn, svars, twin>>

\* quiescence up to its move loop: the poll, game over, MAX_PLY, the draw
\* claim, stand pat, the depth cap, the noisy moves.
QuiescenceEnter ==
  /\ node.pc = "enter" /\ node.fn = "quiescence"
  /\ \E stopped \in BOOLEAN, over \in BOOLEAN, kids \in 0..MaxKids :
       node' =
         IF stopped THEN leave(node, 0, "abort")
         ELSE IF over THEN leave(node, mateScore(node.ply), "game over")
         ELSE IF node.ply >= MAX_PLY THEN leave(node, node.ev, "max ply")
         ELSE LET a1 == IF canClaimDraw(node) THEN max(node.alpha, 0) ELSE node.alpha
                  a2 == max(a1, node.ev)
              IN IF canClaimDraw(node) /\ a1 >= node.beta THEN leave(node, a1, "draw claim")
                 ELSE IF node.ev >= node.beta THEN leave(node, node.beta, "stand pat")
                 ELSE IF node.qDepth <= 0 THEN leave(node, a2, "depth cap")
                 ELSE IF kids = 0 THEN leave(node, a2, "no noisy move")
                 ELSE [node EXCEPT !.pc = "loop", !.alpha = a2, !.left = kids]
  /\ UNCHANGED <<pos, stack, plyLeft, last, acc, line, nn, svars, twin>>

\* One pass of quiescence's move loop.
QuiescenceChild ==
  /\ node.pc = "loop" /\ node.fn = "quiescence"
  /\ \E score \in ChildScores(node.ply), aborted \in BOOLEAN :
       LET a == max(node.alpha, score)
       IN node' =
            IF aborted THEN leave(node, 0, "abort")
            ELSE IF score >= node.beta THEN leave(node, node.beta, "move loop")
            ELSE IF node.left = 1 THEN leave(node, a, "move loop")
            ELSE [node EXCEPT !.alpha = a, !.left = @ - 1]
  /\ UNCHANGED <<pos, stack, plyLeft, last, acc, line, nn, svars, twin>>

NextNode ==
  \/ NegamaxEnter \/ NegamaxProbe \/ NegamaxPrune \/ NegamaxChild
  \/ QuiescenceEnter \/ QuiescenceChild

SpecNode == InitNode /\ [][NextNode]_vars

\* ---------------------------------------------------------------------------
\* apps/citadel_cli.cpp: uciLoop.  The command thread reads one line at a time;
\* `go` starts a worker thread that runs searchBestMove on the loop's Position
\* with the loop's atomic stop flag and sends the info and bestmove lines.
\* ---------------------------------------------------------------------------
MaxCmds == 2
MaxRootMoves == 4

Commands == {"uci", "isready", "ucinewgame", "hash", "evalopt", "nnuefile",
             "position", "go", "stop", "quit"}

\* Mutant: `position` does not stop the search first.
stopsFirstButPosition(cmd) ==
  cmd \in {"ucinewgame", "hash", "evalopt", "nnuefile", "go", "stop", "quit", "eof"}

\* The handlers that begin with stopSearch(), and the stopSearch() after the loop.
stopsFirst(cmd) ==
  cmd \in {"ucinewgame", "hash", "evalopt", "nnuefile", "position", "go", "stop", "quit", "eof"}

\* A line written by send().
sent(kind, m) == [line |-> kind, depth |-> 0, score |-> 0, nodes |-> 0, best |-> m]

\* The options `go` parses, within the depth bound of the model.
GoChoices ==
  {[depth |-> 1, nodeLimit |-> 0, useTime |-> FALSE],
   [depth |-> MaxDepth, nodeLimit |-> PollMask + 1, useTime |-> FALSE]}

\* The Positions a `position fen ...` line can set.
UciPositions == {fenCorner, fenLastMason}

\* uciLoop up to the read loop: the initial Position, the default NNUE file
\* loaded or not; the loop at its first line, or after a first `position`.
InitUci ==
  /\ pos \in {initial} \cup UciPositions
  /\ stack = <<>> /\ plyLeft = 0
  /\ last = [op |-> "init", m |-> nullMove, before |-> pos, expect |-> pos]
  /\ opt = defaultOptions /\ ctx = newContext /\ sr = [idleSearch EXCEPT !.pc = "none"]
  /\ tt = emptyEntry /\ stopFlag = FALSE /\ clockPast = FALSE /\ ttAllocated = FALSE
  /\ node = noNode /\ twin = noTwin /\ acc = <<>> /\ line = noLine /\ nn = noEval
  /\ \E loaded \in BOOLEAN :
       /\ uci = [noUci EXCEPT !.cpc = "read", !.left = MaxCmds, !.nnueLoaded = loaded,
                              !.evalBackend = IF loaded THEN "NNUE" ELSE "HCE"]
       /\ out = IF loaded THEN <<>> ELSE <<sent("info string", nullMove)>>

\* getline and the dispatch on the first word; a handler that begins with
\* stopSearch() stores true to the stop flag.  At end of input the loop is left
\* and the final stopSearch() runs.
UciRead ==
  /\ uci.cpc = "read"
  /\ \E cmd \in (IF uci.left = 0 THEN {"eof"} ELSE Commands) :
       /\ uci' = [uci EXCEPT !.cmd = cmd, !.left = IF cmd = "eof" THEN 0 ELSE @ - 1,
                             !.cpc = IF stopsFirst(cmd) THEN "join" ELSE "body"]
       /\ stopFlag' = IF stopsFirst(cmd) THEN TRUE ELSE stopFlag
  /\ UNCHANGED <<pos, gvars, opt, ctx, sr, tt, clockPast, ttAllocated, out>>

\* Mutant: the worker is detached instead of joined.
joinReturnsAtOnce(w) == TRUE

\* worker.join() returns once the thread function has returned; it is not
\* called when the thread is not joinable.
joinReturns(w) == w # "running"

\* The rest of stopSearch(): the join, then the flag is cleared.
UciJoin ==
  /\ uci.cpc = "join" /\ joinReturns(uci.worker)
  /\ stopFlag' = FALSE
  /\ uci' = [uci EXCEPT !.worker = "none", !.cpc = "body"]
  /\ UNCHANGED <<pos, gvars, opt, ctx, sr, tt, clockPast, ttAllocated, out>>

\* The handlers without a search or table operation of their own.
UciPlain ==
  /\ uci.cpc = "body"
  /\ uci.cmd \in {"isready", "evalopt", "nnuefile", "position", "stop", "quit", "eof"}
  /\ \/ /\ uci.cmd = "isready"
        /\ out' = Append(out, sent("readyok", nullMove))
        /\ uci' = [uci EXCEPT !.cpc = "read"]
        /\ pos' = pos
     \/ /\ uci.cmd = "evalopt"
        /\ \E v \in {"NNUE", "HCE"} :
             /\ uci' = [uci EXCEPT !.cpc = "read", !.evalBackend = v]
             /\ out' = IF v = "NNUE" /\ ~uci.nnueLoaded
                       THEN Append(out, sent("info string", nullMove)) ELSE out
        /\ pos' = pos
     \/ /\ uci.cmd = "nnuefile"
        /\ \E loaded \in BOOLEAN :
             uci' = [uci EXCEPT !.cpc = "read", !.nnueLoaded = loaded]
        /\ out' = Append(out, sent("info string", nullMove))
        /\ pos' = pos
     \/ /\ uci.cmd = "position"
        /\ \/ pos' \in {initial} \cup UciPositions /\ out' = out
           \/ pos' = pos /\ out' = Append(out, sent("info string", nullMove))
        /\ uci' = [uci EXCEPT !.cpc = "read"]
     \/ /\ uci.cmd = "stop"
        /\ uci' = [uci EXCEPT !.cpc = "read"]
        /\ UNCHANGED <<pos, out>>
     \/ /\ uci.cmd \in {"quit", "eof"}
        /\ uci' = [uci EXCEPT !.cpc = "end"]
        /\ UNCHANGED <<pos, out>>
  /\ UNCHANGED <<gvars, opt, ctx, sr, tt, stopFlag, clockPast, ttAllocated>>

\* The handlers that reach the table: `uci` through transpositionTableSizeMB()
\* and ensureTT(), which allocates only an empty table; `ucinewgame` through
\* clearTranspositionTable(); `setoption name Hash` through allocTTMB().
UciTable ==
  /\ uci.cpc = "body" /\ uci.cmd \in {"uci", "ucinewgame", "hash"}
  /\ IF uci.cmd = "uci" /\ ttAllocated
     THEN /\ uci' = [uci EXCEPT !.cpc = "read"]
          /\ out' = Append(out, sent("uciok", nullMove))
     ELSE /\ uci' = [uci EXCEPT !.cpc = "table"]
          /\ out' = out
  /\ UNCHANGED <<pos, gvars, opt, ctx, sr, tt, stopFlag, clockPast, ttAllocated>>

\* TT.assign in allocTTMB, or the loop of clearTranspositionTable, has run.
UciTableDone ==
  /\ uci.cpc = "table"
  /\ ttAllocated' = TRUE
  /\ tt' = emptyEntry
  /\ uci' = [uci EXCEPT !.cpc = "read"]
  /\ pos' = IF uci.cmd = "ucinewgame" THEN initial ELSE pos
  /\ out' = IF uci.cmd = "uci" THEN Append(out, sent("uciok", nullMove)) ELSE out
  /\ UNCHANGED <<gvars, opt, ctx, sr, stopFlag, clockPast>>

\* `go`: the limits are parsed, the flag is cleared and the worker is created.
\* Assigning to a std::thread that is still joinable calls std::terminate.
UciGo ==
  /\ uci.cpc = "body" /\ uci.cmd = "go"
  /\ Len(generateMoves(pos)) <= MaxRootMoves
  /\ stopFlag' = FALSE
  /\ IF uci.worker # "none"
     THEN /\ uci' = [uci EXCEPT !.cpc = "terminated"]
          /\ UNCHANGED <<opt, ctx, sr, clockPast>>
     ELSE /\ \E g \in GoChoices :
               opt' = [depth |-> g.depth, nodeLimit |-> g.nodeLimit, useTime |-> g.useTime,
                       useTT |-> TRUE, hasStop |-> TRUE, hasInfo |-> TRUE]
          /\ uci' = [uci EXCEPT !.cpc = "read", !.worker = "running",
                                !.goes = @ + 1, !.mark = Len(out)]
          /\ sr' = idleSearch /\ ctx' = newContext /\ clockPast' = FALSE
  /\ UNCHANGED <<pos, gvars, tt, ttAllocated, out>>

\* The worker after searchBestMove has returned: the bestmove line, and the
\* thread function returns.
WorkerBestmove ==
  /\ uci.worker = "running" /\ sr.pc = "done"
  /\ out' = Append(out, sent("bestmove", sr.res.best))
  /\ uci' = [uci EXCEPT !.worker = "finished"]
  /\ UNCHANGED <<pos, gvars, opt, ctx, sr, tt, stopFlag, clockPast, ttAllocated>>

\* The worker inside searchBestMove.
WorkerSearch == SearchStart \/ IterTop \/ RootMove \/ RootDone \/ Finish

NextUci ==
  \/ UciRead \/ UciJoin \/ UciPlain \/ UciTable \/ UciTableDone \/ UciGo
  \/ WorkerSearch \/ WorkerBestmove

SpecUci == InitUci /\ [][NextUci]_vars

\* The worker thread keeps running, whatever the command thread does.
WorkerRuns == SearchRuns /\ WF_vars(WorkerBestmove)
SpecUciFair == SpecUci /\ WorkerRuns

\* ---------------------------------------------------------------------------
\* A game: the two sides move in turn until there is a winner, nothing is undone
\* ---------------------------------------------------------------------------
MaxGame == 5

\* Of the moves g generated for p: the first two of the Bastions, of the
\* Sovereign's moves and of the other moves.
firstTwo(hit) == {hit[k] : k \in {1, 2} \cap DOMAIN hit}
CandidatesOf(p, g) ==
  firstTwo(SelectSeq(g, LAMBDA m : m.type = "Bastion"))
    \cup firstTwo(SelectSeq(g, LAMBDA m : m.type = "Normal" /\ p.b[m.from] = makePiece(p.turn, Sovereign)))
    \cup firstTwo(SelectSeq(g, LAMBDA m : m.type # "Bastion"
                                           /\ ~(m.type = "Normal" /\ p.b[m.from] = makePiece(p.turn, Sovereign))))

\* The moves a game is continued with.
Candidates(p) == CandidatesOf(p, generateMoves(p))

GameRoots == {initial, fenKeep, fenTomb, fenBrink}

InitGame ==
  /\ pos \in GameRoots
  /\ stack = <<>> /\ plyLeft = MaxGame
  /\ last = [op |-> "init", m |-> nullMove, before |-> pos, expect |-> pos]
  /\ opt = defaultOptions /\ ctx = newContext /\ sr = idleSearch
  /\ tt = emptyEntry /\ stopFlag = FALSE /\ clockPast = FALSE
  /\ ttAllocated = FALSE /\ out = <<>> /\ uci = noUci /\ twin = noTwin /\ acc = <<>>
  /\ node = noNode /\ line = noLine /\ nn = noEval

PlayMove ==
  /\ plyLeft > 0 /\ ~gameOver(pos)
  /\ \E m \in Candidates(pos) :
       LET r == makeMove(pos, m)
       IN /\ pos' = r.p
          /\ stack' = <<[kind |-> "move", u |-> r.u, m |-> m, pre |-> pos]>> \o stack
          /\ last' = [op |-> "makeMove", m |-> m, before |-> pos, expect |-> pos]
  /\ plyLeft' = plyLeft - 1
  /\ UNCHANGED <<svars, node, twin, line, acc, nn>>

NextGame == PlayMove
SpecGame == InitGame /\ [][NextGame]_vars

\* ---------------------------------------------------------------------------
\* One call of NNUE::arshift, as evaluateWhite makes it on a 32-bit sum with a
\* shift the loader accepted
\* ---------------------------------------------------------------------------
MaxShift == 31

ShiftInputs ==
  {0, 1, -1, 2, -2, 3, -3, 5, -5, 7, -7, 8, -8, -9, 127, -128, -129, 255, -255, -256, -257,
   32767, -32768, -32769, 65536, -65536, -65537, 1000000, -1000000,
   2^30 - 1, 2^30, 2^30 + 1, -(2^30) + 1, -(2^30), -(2^30) - 1, -(2^30) - 2,
   INT_MAX - 1, INT_MAX, -INT_MAX + 1, -INT_MAX, INT_MIN}

InitShift ==
  /\ pos = initial /\ stack = <<>> /\ plyLeft = 0
  /\ last = [op |-> "init", m |-> nullMove, before |-> pos, expect |-> pos]
  /\ opt = defaultOptions /\ ctx = newContext /\ sr = idleSearch
  /\ tt = emptyEntry /\ stopFlag = FALSE /\ clockPast = FALSE
  /\ ttAllocated = FALSE /\ out = <<>> /\ uci = noUci /\ twin = noTwin /\ acc = <<>>
  /\ node = noNode /\ line = noLine
  /\ nn \in [pc : {"call"}, x : ShiftInputs, s : 0..MaxShift]

\* The call returns. Where it overflowed an int the build decides what happens:
\* the wrapped value comes back or the overflow traps.
Arshift ==
  /\ nn.pc = "call"
  /\ LET a == arshift(nn.x, nn.s)
     IN \/ nn' = [pc |-> "returned", x |-> nn.x, s |-> nn.s, r |-> a.r, ub |-> a.ub]
        \/ a.ub /\ nn' = [pc |-> "trapped", x |-> nn.x, s |-> nn.s, r |-> 0, ub |-> TRUE]
  /\ UNCHANGED <<pos, stack, plyLeft, last, acc, line, svars, node, twin>>

NextShift == Arshift
SpecShift == InitShift /\ [][NextShift]_vars

\* ---------------------------------------------------------------------------
\* The move loop of one node: the table's move, the killers of the ply and the
\* history as earlier nodes of the search may have left them
\* ---------------------------------------------------------------------------
OrderRoots == {fenKeep, fenTomb, fenStorm, fenLastMason}

\* The quiet moves, the captures and the other moves of a Position, in the
\* order generated.
QuietMoves(p) == SelectSeq(generateMoves(p), LAMBDA m : isQuietMove(p, m))
CaptureMoves(p) ==
  SelectSeq(generateMoves(p),
            LAMBDA m : m.type \in {"Normal", "CatapultMove", "MasonCommand"} /\ p.b[m.to] # 0)

\* Up to n moves from the front of a list, and its last.
Some(q, n) == {q[i] : i \in (1..n) \cap DOMAIN q} \cup {q[i] : i \in {Len(q)} \cap DOMAIN q}

\* History counters: sums of depth * depth, capped at 1000000.
HistoryValues == {4, 12000, 1000000}

\* The table's move, the killers (the second only with a first, and another
\* move) and one history counter, taken from the quiet moves and the captures.
NodeTables(quiet, capture) ==
  {[pc |-> "moves", ttBest |-> ttBest, killers |-> <<k0, k1>>,
    history |-> IF hv = 0 THEN <<>> ELSE (historyIndex(hm) :> hv), tried |-> <<>>] :
     <<ttBest, k0, k1, hm, hv>> \in
       {x \in ({nullMove} \cup Some(quiet, 1) \cup Some(capture, 1))
                \X ({nullMove} \cup Some(quiet, 1)) \X ({nullMove} \cup Some(quiet, 2))
                \X (Some(quiet, 2) \cup Some(capture, 1)) \X ({0} \cup HistoryValues) :
          /\ x[2] = nullMove => x[3] = nullMove
          /\ x[2] # nullMove => x[3] # x[2]}}

InitOrder ==
  /\ pos \in OrderRoots /\ stack = <<>> /\ plyLeft = 0
  /\ last = [op |-> "init", m |-> nullMove, before |-> pos, expect |-> pos]
  /\ opt = defaultOptions /\ ctx = newContext /\ sr = idleSearch
  /\ tt = emptyEntry /\ stopFlag = FALSE /\ clockPast = FALSE
  /\ ttAllocated = FALSE /\ out = <<>> /\ uci = noUci /\ twin = noTwin /\ acc = <<>>
  /\ line = noLine /\ nn = noEval
  /\ node \in NodeTables(QuietMoves(pos), CaptureMoves(pos))

\* The loop runs through the list.
OrderMoves ==
  /\ node.pc = "moves"
  /\ node' = [node EXCEPT !.pc = "tried", !.tried = triedOrder(pos, node.ttBest, node, 0)]
  /\ UNCHANGED <<pos, stack, plyLeft, last, acc, line, nn, svars, twin>>

NextOrder == OrderMoves
SpecOrder == InitOrder /\ [][NextOrder]_vars

\* ---------------------------------------------------------------------------
\* The end of negamax and of searchRoot: the move loop is over and the result
\* goes into the table
\* ---------------------------------------------------------------------------
StoreRoots == {fenLastMason, fenCorner}

\* What the slot of the node's key may hold: nothing, or an entry written at
\* some depth for this key or for another key with the same index.
SlotEntries(p) ==
  {emptyEntry} \cup
  [key : {hashPosition(p), Xor(hashPosition(p), turnKey)}, score : {0, ScoreStep},
   depth : 1..MaxDepth, flag : {"Exact", "Lower"}, best : {nullMove}]

InitStore ==
  /\ pos \in StoreRoots /\ stack = <<>> /\ plyLeft = 0
  /\ last = [op |-> "init", m |-> nullMove, before |-> pos, expect |-> pos]
  /\ opt \in [depth : {MaxDepth}, nodeLimit : {0}, useTime : {FALSE}, useTT : BOOLEAN,
              hasStop : {FALSE}, hasInfo : {FALSE}]
  /\ ctx = newContext /\ sr = idleSearch
  /\ tt \in SlotEntries(pos)
  /\ stopFlag = FALSE /\ clockPast = FALSE /\ ttAllocated = opt.useTT
  /\ out = <<>> /\ uci = noUci /\ twin = noTwin /\ acc = <<>> /\ line = noLine /\ nn = noEval
  /\ \E fn \in {"negamax", "searchRoot"}, ply \in {0, 1, 2}, depth \in 1..MaxDepth,
        best \in {-ScoreStep, 0, ScoreStep, mateScore(3)}, alphaOrig \in {-INF, 0},
        beta \in {ScoreStep, INF}, i \in {1, Len(generateMoves(pos))} :
       /\ (fn = "searchRoot") = (ply = 0)
       /\ ply + depth <= MaxDepth
       /\ node = [pc |-> "store", fn |-> fn, key |-> hashPosition(pos), ply |-> ply,
                  depth |-> depth, best |-> best, alphaOrig |-> alphaOrig, beta |-> beta,
                  bestMove |-> generateMoves(pos)[i], found |-> tt]

\* negamax after its move loop (search.cpp 1248-1261).
NegamaxStore ==
  /\ node.pc = "store" /\ node.fn = "negamax"
  /\ tt' = IF usesTable(opt)
           THEN negamaxStore(tt, node.key, node.depth, ttFlag(node.best, node.alphaOrig, node.beta),
                             scoreToTT(node.best, node.ply), node.bestMove)
           ELSE tt
  /\ node' = [node EXCEPT !.pc = "ret"]
  /\ UNCHANGED <<pos, stack, plyLeft, last, acc, line, nn, twin,
                 opt, ctx, sr, stopFlag, clockPast, ttAllocated, out, uci>>

\* searchRoot after its move loop (search.cpp 1337-1350).
RootStore ==
  /\ node.pc = "store" /\ node.fn = "searchRoot"
  /\ tt' = IF usesTable(opt)
           THEN rootStore(tt, node.key, node.depth, ttFlag(node.best, node.alphaOrig, node.beta),
                          scoreToTT(node.best, 0), node.bestMove)
           ELSE tt
  /\ node' = [node EXCEPT !.pc = "ret"]
  /\ UNCHANGED <<pos, stack, plyLeft, last, acc, line, nn, twin,
                 opt, ctx, sr, stopFlag, clockPast, ttAllocated, out, uci>>

NextStore == NegamaxStore \/ RootStore
SpecStore == InitStore /\ [][NextStore]_vars

\* ---------------------------------------------------------------------------
\* fromFEN on the texts a caller may hand it (--fen, `position fen`, a PGN tag)
\* ---------------------------------------------------------------------------
\* The words of a line, as iss >> tok yields them one after the other.
TextWords(text) ==
  LET idx == [i \in 1..Len(text) |-> i]
      starts == SelectSeq(idx, LAMBDA i : text[i] # " " /\ (i = 1 \/ text[i - 1] = " "))
      ends == SelectSeq(idx, LAMBDA i : text[i] # " " /\ (i = Len(text) \/ text[i + 1] = " "))
  IN [k \in 1..Len(starts) |-> SubSeq(text, starts[k], ends[k])]

joinFields(fs) ==
  IF fs = <<>> THEN <<>>
  ELSE Flatten([i \in 1..Len(fs) |-> IF i = 1 THEN fs[i] ELSE <<" ">> \o fs[i]])

\* The full text of a Position, and the shorter forms fromFEN takes: board and
\* turn only, with the rights, and with the clocks but without the wall flags.
FenFields(p) ==
  LET full == toFEN(p)
      sp == SelectSeq([i \in 1..Len(full) |-> i], LAMBDA i : full[i] = " ")
      field(k) == SubSeq(full, IF k = 1 THEN 1 ELSE sp[k - 1] + 1,
                               IF k = Len(sp) + 1 THEN Len(full) ELSE sp[k] - 1)
  IN [k \in 1..(Len(sp) + 1) |-> field(k)]

FenForms(p) ==
  LET f == FenFields(p)
  IN {joinFields(f), joinFields(SubSeq(f, 1, 2)), joinFields(SubSeq(f, 1, 3)),
      joinFields(<<f[1], f[2], f[3], f[5], f[6]>>)}

EditChars == {"x", "/", "9"}

\* A text with one character struck out or overwritten.
Edits(text) ==
  {text}
  \cup {SubSeq(text, 1, i - 1) \o SubSeq(text, i + 1, Len(text)) : i \in 1..Len(text)}
  \cup {[text EXCEPT ![i] = ch] : i \in 1..Len(text), ch \in EditChars}

FenRoots == {fenTomb, fenSiege}

\* The texts handed to fromFEN: the forms of the roots, edited, and the empty text.
FenTexts(roots) == UNION {Edits(t) : t \in UNION {FenForms(p) : p \in roots}} \cup {<<>>}

InitFen ==
  /\ pos = initial /\ stack = <<>> /\ plyLeft = 0
  /\ last = [op |-> "init", m |-> nullMove, before |-> pos, expect |-> pos]
  /\ opt = defaultOptions /\ ctx = newContext /\ sr = idleSearch
  /\ tt = emptyEntry /\ stopFlag = FALSE /\ clockPast = FALSE
  /\ ttAllocated = FALSE /\ out = <<>> /\ uci = noUci /\ twin = noTwin /\ acc = <<>>
  /\ node = noNode /\ nn = noEval
  /\ line \in [pc : {"text"}, text : FenTexts(FenRoots), res : {thrown("")}]

\* Position::fromFEN(text): the Position returned or the exception thrown.
FromFEN ==
  /\ line.pc = "text"
  /\ line' = [line EXCEPT !.pc = "parsed", !.res = fromFEN(line.text)]
  /\ UNCHANGED <<pos, stack, plyLeft, last, acc, nn, svars, node, twin>>

NextFen == FromFEN
SpecFen == InitFen /\ [][NextFen]_vars

\* ---------------------------------------------------------------------------
\* The `position` command of the UCI loop, with no search running
\* ---------------------------------------------------------------------------
MaxToks == 3

toUpperCopy(text) == [i \in 1..Len(text) |-> toupper(text[i])]

\* The move tokens a GUI may send for Position p: its first and last moves and
\* its first move that ends the game, as the engine spells them, one move in
\* capitals, one of White's opening moves, and a token that is no move at all.
TokensAmong(g, ending) ==
  {moveToUciToken(g[i]) : i \in {1, Len(g)} \cap DOMAIN g}
    \cup {moveToUciToken(ending[i]) : i \in {1} \cap DOMAIN ending}
    \cup {toUpperCopy(moveToPgnToken(g[i])) : i \in {2} \cap DOMAIN g}
    \cup {moveToUciToken(generateMoves(initial)[1]), <<"z", "z">>}
EndingMoves(p, g) == SelectSeq(g, LAMBDA m : gameOver(makeMove(p, m).p))
TokensFor(p) == UNION {TokensAmong(g, EndingMoves(p, g)) : g \in {generateMoves(p)}}

\* Where a token list leads from p, by the moves of the generator.
afterParsed(p, r) == IF r.ok THEN makeMove(p, r.m).p ELSE p
afterToken(p, tok) == afterParsed(p, parseMoveToken(p, tok))

RECURSIVE TokenLists(_, _)
TokenLists(p, n) ==
  {<<>>} \cup (IF n = 0 THEN {}
               ELSE UNION {UNION {{<<t>> \o rest : rest \in TokenLists(q, n - 1)}
                                    : q \in {afterToken(p, t)}} : t \in TokensFor(p)})

\* The fields after `position fen`: the text of a Position, whole or with a
\* character of the board or the turn struck out.
FenWordsOf(t, turnAt) == {TextWords(t), TextWords(Tail(t)), TextWords([t EXCEPT ![turnAt] = "x"])}
FenWords(p) == FenWordsOf(toFEN(p), Len(boardText(p, 0)) + 2)

PositionRoots == {fenStorm, fenCorner}

PositionLines(roots, n) ==
  {[pc |-> "cmd", kind |-> "startpos", words |-> <<>>, hasMoves |-> toks # <<>>, toks |-> toks,
    i |-> 0, applied |-> <<>>, start |-> initial] : toks \in TokenLists(initial, n)}
  \cup UNION {UNION {{[pc |-> "cmd", kind |-> "fen", words |-> w, hasMoves |-> toks # <<>>, toks |-> toks,
                       i |-> 0, applied |-> <<>>, start |-> initial] : toks \in TokenLists(p, n)}
                      : w \in FenWords(p)} : p \in roots}
  \cup {[pc |-> "cmd", kind |-> "other", words |-> <<>>, hasMoves |-> FALSE, toks |-> <<>>,
         i |-> 0, applied |-> <<>>, start |-> initial]}

InitPosition ==
  /\ pos \in {initial, fenLastMason}
  /\ stack = <<>> /\ plyLeft = 0
  /\ last = [op |-> "init", m |-> nullMove, before |-> pos, expect |-> pos]
  /\ opt = defaultOptions /\ ctx = newContext /\ sr = idleSearch
  /\ tt = emptyEntry /\ stopFlag = FALSE /\ clockPast = FALSE
  /\ ttAllocated = FALSE /\ out = <<>> /\ uci = noUci /\ twin = noTwin /\ acc = <<>>
  /\ node = noNode /\ nn = noEval
  /\ \E l \in PositionLines(PositionRoots, MaxToks) : line = [l EXCEPT !.start = pos]

\* The handler up to the move list: startpos or the text after `fen`.
setPosition(r) ==
  IF line.kind = "other"
  THEN /\ line' = [line EXCEPT !.pc = "done"]
       /\ UNCHANGED <<pos, out>>
  ELSE IF r.ok
  THEN /\ pos' = r.p
       /\ line' = [line EXCEPT !.pc = IF line.hasMoves THEN "moves" ELSE "done", !.start = r.p]
       /\ out' = out
  ELSE /\ out' = Append(out, [line |-> "position error", tok |-> r.err])
       /\ line' = [line EXCEPT !.pc = "done"]
       /\ pos' = pos

PositionSet ==
  /\ line.pc = "cmd"
  /\ setPosition(IF line.kind = "fen" THEN fromFEN(joinFields(line.words)) ELSE parsed(initial))
  /\ UNCHANGED <<stack, plyLeft, last, acc, nn, opt, ctx, sr, tt, stopFlag, clockPast, ttAllocated, uci, node, twin>>

\* One turn of the loop over the move tokens.
applyToken(mTok, m) ==
  IF ~m.ok
  THEN /\ out' = Append(out, [line |-> "illegal move", tok |-> mTok])
       /\ line' = [line EXCEPT !.pc = "done"]
       /\ pos' = pos
  ELSE /\ pos' = makeMove(pos, m.m).p
       /\ line' = [line EXCEPT !.i = @ + 1,
                               !.applied = Append(@, [tok |-> mTok, m |-> m.m, p |-> pos])]
       /\ out' = out

\* Mutant: the lambda restores the Mason's square only.
restoreCommandStepHalf(tmp, masonSq, destSq, fromV, toV) ==
  setSquareRaw(tmp, masonSq, fromV)

\* The two setSquareRaw calls under "Restore" in considerCommandDest.
restoreCommandStep(tmp, masonSq, destSq, fromV, toV) ==
  setSquareRaw(setSquareRaw(tmp, masonSq, fromV), destSq, toV)

\* The Position one call of the lambda considerCommandDest leaves behind: nothing
\* is touched for a Sovereign capture, otherwise the step is applied with two
\* setSquareRaw calls and taken back with two more.
commandDestScratch(p, masonSq, destSq, us) ==
  LET dstV == p.b[destSq]
      fromV == p.b[masonSq]
      tmp == setSquareRaw(setSquareRaw(p, destSq, fromV), masonSq, 0)
  IN IF dstV = makePiece(other(us), Sovereign) THEN p
     ELSE restoreCommandStep(tmp, masonSq, destSq, fromV, dstV)

\* The Command part of genMasonExtras on the Position: the orthogonal and the
\* diagonal candidates in the code's order, each tested on the board as the
\* calls before it left it.
RECURSIVE commandScratchOver(_, _, _, _)
commandScratchOver(p, masonSq, cands, us) ==
  IF cands = <<>> THEN p
  ELSE LET t == Head(cands).sq
           v == p.b[t]
           taken == IF Head(cands).diag THEN isPieceVal(v) /\ colorOf(v) = other(us) ELSE v = 0
       IN commandScratchOver(IF taken THEN commandDestScratch(p, masonSq, t, us) ELSE p,
                             masonSq, Tail(cands), us)

masonExtrasScratch(p, masonSq, us) ==
  LET eligible == \E i \in 1..Len(kingTargets[masonSq]) :
                     p.b[kingTargets[masonSq][i]] = makePiece(us, Minister)
      f == IF us = White THEN -1 ELSE 1
      orth == Targets(masonSq, << <<f, 0>>, <<0, -1>>, <<0, 1>> >>)
      diag == Targets(masonSq, << <<f, -1>>, <<f, 1>> >>)
      cands == [i \in 1..Len(orth) |-> [sq |-> orth[i], diag |-> FALSE]]
               \o [i \in 1..Len(diag) |-> [sq |-> diag[i], diag |-> TRUE]]
  IN IF ~eligible THEN p ELSE commandScratchOver(p, masonSq, cands, us)

\* The Position generateMoves leaves behind: the only writes are those of
\* genMasonExtras, once per Mason of the side to move, in bitboard order.
RECURSIVE masonsScratch(_, _, _)
masonsScratch(p, masons, us) ==
  IF masons = <<>> THEN p
  ELSE masonsScratch(masonExtrasScratch(p, Head(masons), us), Tail(masons), us)

positionAfterGenerate(p) ==
  IF gameOver(p) THEN p ELSE masonsScratch(p, BBSeq(p.pieceBB[p.turn][Mason]), p.turn)

PositionMove ==
  /\ line.pc = "moves"
  /\ IF line.i >= Len(line.toks)
     THEN /\ line' = [line EXCEPT !.pc = "done"]
          /\ UNCHANGED <<pos, out>>
     ELSE applyToken(line.toks[line.i + 1], parseMoveToken(pos, line.toks[line.i + 1]))
  /\ UNCHANGED <<stack, plyLeft, last, acc, nn, opt, ctx, sr, tt, stopFlag, clockPast, ttAllocated, uci, node, twin>>

NextPosition == PositionSet \/ PositionMove
SpecPosition == InitPosition /\ [][NextPosition]_vars

\* ---------------------------------------------------------------------------
\* The aspiration loop of searchBestMove on int arithmetic: each call of
\* searchRoot returns a score between -MATE and MATE or is aborted; a fail
\* doubles the half-width and moves one bound.
\* ---------------------------------------------------------------------------
MaxAspDepth == 3

\* Mutant: a fail leaves the half-width as it was.
widenNot(window) == window

\* window *= 2.
widen(window) == wrapAdd(window, window)

MaxResearches == 24

\* The scores one searchRoot call may return for the window (alpha, beta): the
\* extremes, a draw, and the scores at either bound.
AspScores(alpha, beta) ==
  {-MATE, 0, MATE} \cup {x \in {alpha, beta} : x >= -MATE /\ x <= MATE}

InitAspire ==
  /\ pos = fenStorm
  /\ stack = <<>> /\ plyLeft = 0
  /\ last = [op |-> "aspire", m |-> nullMove, before |-> pos, expect |-> pos,
             n |-> 0, fails |-> {}, overflow |-> FALSE]
  /\ opt = [defaultOptions EXCEPT !.depth = MaxAspDepth]
  /\ ctx = newContext
  /\ sr = [idleSearch EXCEPT !.pc = "iter", !.maxDepth = MaxAspDepth]
  /\ tt = emptyEntry /\ stopFlag = FALSE /\ clockPast = FALSE
  /\ ttAllocated = FALSE /\ out = <<>> /\ uci = noUci /\ twin = noTwin /\ acc = <<>>
  /\ node = noNode /\ line = noLine /\ nn = noEval

\* Head of the iterative-deepening loop: the loop test and the first window.
AspireTop ==
  /\ sr.pc = "iter"
  /\ LET window == IF sr.curDepth <= 2 THEN 140 ELSE 90
     IN sr' = IF sr.curDepth > sr.maxDepth THEN [sr EXCEPT !.pc = "done"]
              ELSE IF sr.curDepth > 1
                THEN [sr EXCEPT !.pc = "aspire", !.window = window,
                                !.alpha = wrapAdd(sr.prevScore, -window),
                                !.beta = wrapAdd(sr.prevScore, window)]
                ELSE [sr EXCEPT !.pc = "aspire", !.window = window, !.alpha = -INF, !.beta = INF]
  /\ last' = [last EXCEPT !.n = 0, !.fails = {}]
  /\ UNCHANGED <<pos, stack, plyLeft, opt, ctx, tt, stopFlag, clockPast, ttAllocated, out, uci,
                 node, twin, line, acc, nn>>

\* One pass of the while (true) loop: searchRoot returns, then the loop leaves on
\* abort, at depth 1 or inside the window, and re-searches on a fail.
AspireSearch ==
  /\ sr.pc = "aspire"
  /\ \E aborted \in BOOLEAN, score \in AspScores(sr.alpha, sr.beta) :
       LET w == widen(sr.window)
           grown == addOverflows(sr.window, sr.window)
       IN /\ ctx' = [ctx EXCEPT !.aborted = aborted]
          /\ IF aborted
             THEN sr' = [sr EXCEPT !.pc = "done"] /\ last' = last
             ELSE IF sr.curDepth # 1 /\ score <= sr.alpha
               THEN /\ sr' = [sr EXCEPT !.alpha = -INF, !.window = w, !.beta = wrapAdd(score, w),
                                        !.rBestScore = score]
                    /\ last' = [last EXCEPT !.n = Min(@ + 1, MaxResearches), !.fails = @ \cup {"low"},
                                            !.overflow = @ \/ grown \/ addOverflows(score, w)]
             ELSE IF sr.curDepth # 1 /\ score >= sr.beta
               THEN /\ sr' = [sr EXCEPT !.beta = INF, !.window = w, !.alpha = wrapAdd(score, -w),
                                        !.rBestScore = score]
                    /\ last' = [last EXCEPT !.n = Min(@ + 1, MaxResearches), !.fails = @ \cup {"high"},
                                            !.overflow = @ \/ grown \/ addOverflows(score, -w)]
             ELSE /\ sr' = [sr EXCEPT !.pc = "iter", !.rBestScore = score, !.bestScore = score,
                                      !.prevScore = score, !.lastCompletedDepth = sr.curDepth,
                                      !.curDepth = @ + 1]
                  /\ last' = last
  /\ UNCHANGED <<pos, stack, plyLeft, opt, tt, stopFlag, clockPast, ttAllocated, out, uci,
                 node, twin, line, acc, nn>>

NextAspire == AspireTop \/ AspireSearch
\* searchRoot returns and the loop head is straight-line code: either step,
\* once due, is taken.
SpecAspire == InitAspire /\ [][NextAspire]_vars /\ WF_vars(AspireTop) /\ WF_vars(AspireSearch)

\* ---------------------------------------------------------------------------
\* The board functions on the positions of short games: attacks, the noisy
\* generator, the generator's scratch work on the board, the incremental key
\* ---------------------------------------------------------------------------
Emitted(ms) == {ms[i] : i \in 1..Len(ms)}

MaxBoard == 2

BoardRoots == {initial, fenKeep, fenTomb, fenStorm, fenBrink, fenBesieged, fenArray, fenCommand}

InitBoard ==
  /\ pos \in BoardRoots
  /\ stack = <<>> /\ plyLeft = MaxBoard
  /\ last = [op |-> "init", m |-> nullMove, before |-> pos, expect |-> pos]
  /\ opt = defaultOptions /\ ctx = newContext /\ sr = idleSearch
  /\ tt = emptyEntry /\ stopFlag = FALSE /\ clockPast = FALSE
  /\ ttAllocated = FALSE /\ out = <<>> /\ uci = noUci /\ twin = noTwin /\ acc = <<>>
  /\ node = noNode /\ line = noLine /\ nn = noEval

BoardMove ==
  /\ plyLeft > 0 /\ ~gameOver(pos)
  /\ \E m \in Candidates(pos) :
       /\ pos' = makeMove(pos, m).p
       /\ last' = [op |-> "makeMove", m |-> m, before |-> pos, expect |-> pos]
  /\ plyLeft' = plyLeft - 1
  /\ UNCHANGED <<stack, svars, node, twin, line, acc, nn>>

\* One call of computeAttacks, and isSquareAttackedBy asked of every square.
ComputeAttacks ==
  /\ \E c \in Colors :
       last' = [op |-> "computeAttacks", m |-> nullMove, before |-> pos, expect |-> pos,
                attacker |-> c, attacked |-> computeAttacks(pos, c),
                each |-> {s \in Squares : isSquareAttackedBy(pos, c, s)}]
  /\ UNCHANGED <<pos, stack, plyLeft, svars, node, twin, line, acc, nn>>

\* The two generators called on the same Position.
GenerateNoisy ==
  /\ last' = [op |-> "generateNoisyMoves", m |-> nullMove, before |-> pos, expect |-> pos,
              noisy |-> generateNoisyMoves(pos), moves |-> generateMoves(pos)]
  /\ UNCHANGED <<pos, stack, plyLeft, svars, node, twin, line, acc, nn>>

\* One call of generateMoves: the list it fills and the Position it leaves.
GenerateMoves ==
  /\ pos' = positionAfterGenerate(pos)
  /\ last' = [op |-> "generateMoves", m |-> nullMove, before |-> pos, expect |-> pos,
              moves |-> generateMoves(pos)]
  /\ UNCHANGED <<stack, plyLeft, svars, node, twin, line, acc, nn>>

\* The search's key across every move of the Position, as searchRoot, negamax
\* and quiescence compute it: hashAfterMake on the Position after makeMove,
\* which is then undone.
KeyAfterMake ==
  /\ ~gameOver(pos)
  /\ \E h \in {hashPosition(pos)} :
       last' = [op |-> "hashAfterMake", m |-> nullMove, before |-> pos, expect |-> pos,
                keys |-> UNION {{[m |-> m,
                                  key |-> hashAfterMake(h, r.p, r.u),
                                  whole |-> hashPosition(r.p),
                                  ends |-> gameOver(r.p),
                                  flags |-> r.p.bastionRight # pos.bastionRight
                                            \/ r.p.wallBuiltLast # pos.wallBuiltLast]
                                 : r \in {makeMove(pos, m)}}
                               : m \in Emitted(generateMoves(pos)) \cup Emitted(generateNoisyMoves(pos))}]
  /\ UNCHANGED <<pos, stack, plyLeft, svars, node, twin, line, acc, nn>>

\* negamax's nullKey across makeNullMove, which is then undone.
KeyAfterNull ==
  /\ ~gameOver(pos)
  /\ \E r \in {makeNullMove(pos)} :
       last' = [op |-> "nullKey", m |-> nullMove, before |-> pos, expect |-> pos, after |-> r.p,
                key |-> Xor(hashPosition(pos), turnKey),
                whole |-> hashPosition(r.p)]
  /\ UNCHANGED <<pos, stack, plyLeft, svars, node, twin, line, acc, nn>>

NextBoard ==
  BoardMove \/ ComputeAttacks \/ GenerateNoisy \/ GenerateMoves \/ KeyAfterMake \/ KeyAfterNull
SpecBoard == InitBoard /\ [][NextBoard]_vars

\* ---------------------------------------------------------------------------
\* The tree of one search on the Position itself: searchRoot and negamax make a
\* move, a null move, or (at depth 0) quiescence a noisy move, descend, and
\* undo it when the subtree returns; a poll may abort the search at any node
\* ---------------------------------------------------------------------------
MaxTree == 2
MaxQuiet == 2

TreeRoots == {fenKeep, fenTomb, fenStorm, fenArray}

\* The noisy moves quiescence is followed into: the first two, and the first
\* two that generateMoves does not list.
NoisyAmong(noisy, legal) ==
  firstTwo(noisy) \cup firstTwo(SelectSeq(noisy, LAMBDA m : \A i \in 1..Len(legal) : legal[i] # m))
NoisyCandidates(p) == NoisyAmong(generateNoisyMoves(p), generateMoves(p))

Kinds(st) == {st[i].kind : i \in 1..Len(st)}

\* Mutant: the abort test comes before the undo.
unwindUnlessAborted(p, fr, aborted) ==
  IF aborted THEN p
  ELSE IF fr.kind = "null" THEN undoNullMove(p, fr.u) ELSE undoMove(p, fr.u)

\* What follows the recursive call: undoMove or undoNullMove, before ctx.aborted is looked at.
unwind(p, fr, aborted) ==
  IF fr.kind = "null" THEN undoNullMove(p, fr.u) ELSE undoMove(p, fr.u)

InitTree ==
  /\ pos \in TreeRoots
  /\ stack = <<>> /\ plyLeft = MaxTree
  /\ last = [op |-> "init", m |-> nullMove, before |-> pos, expect |-> pos, under |-> {}]
  /\ opt = defaultOptions /\ ctx = newContext /\ sr = [idleSearch EXCEPT !.pc = "tree"]
  /\ tt = emptyEntry /\ stopFlag = FALSE /\ clockPast = FALSE
  /\ ttAllocated = FALSE /\ out = <<>> /\ uci = noUci /\ twin = noTwin /\ acc = <<>>
  /\ node = noNode /\ line = noLine /\ nn = noEval

descend(kind, m, r, left) ==
  /\ pos' = r.p
  /\ stack' = <<[kind |-> kind, u |-> r.u, m |-> m, pre |-> pos]>> \o stack
  /\ plyLeft' = left
  /\ last' = [last EXCEPT !.op = kind, !.m = m, !.before = pos]
  /\ UNCHANGED <<svars, node, twin, line, acc, nn>>

\* searchRoot's and negamax's move loops.
TreeMove ==
  /\ sr.pc = "tree" /\ ~ctx.aborted /\ ~gameOver(pos) /\ plyLeft > 0
  /\ \E m \in Candidates(pos) : descend("move", m, makeMove(pos, m), plyLeft - 1)

\* negamax's null move, below the root.
TreeNullMove ==
  /\ sr.pc = "tree" /\ ~ctx.aborted /\ ~gameOver(pos) /\ plyLeft > 0 /\ stack # <<>>
  /\ descend("null", nullMove, makeNullMove(pos), plyLeft - 1)

\* quiescence's move loop, at most MaxQuiet plies below depth 0.
TreeNoisyMove ==
  /\ sr.pc = "tree" /\ ~ctx.aborted /\ ~gameOver(pos) /\ plyLeft = 0
  /\ Cardinality({i \in 1..Len(stack) : stack[i].kind = "noisy"}) < MaxQuiet
  /\ \E m \in NoisyCandidates(pos) : descend("noisy", m, makeMove(pos, m), plyLeft)

\* shouldStop finds the stop flag set or a limit reached: ctx.aborted.
TreeAbort ==
  /\ sr.pc = "tree" /\ ~ctx.aborted
  /\ ctx' = [ctx EXCEPT !.aborted = TRUE]
  /\ last' = [last EXCEPT !.op = "abort", !.under = Kinds(stack)]
  /\ UNCHANGED <<pos, stack, plyLeft, opt, sr, tt, stopFlag, clockPast, ttAllocated, out, uci,
                 node, twin, line, acc, nn>>

\* The subtree returns to the frame that made the move.
TreeReturn ==
  /\ sr.pc = "tree" /\ stack # <<>>
  /\ pos' = unwind(pos, Head(stack), ctx.aborted)
  /\ stack' = Tail(stack)
  /\ plyLeft' = IF Head(stack).kind = "noisy" THEN plyLeft ELSE plyLeft + 1
  /\ last' = [last EXCEPT !.op = "undo", !.m = Head(stack).m, !.before = pos]
  /\ UNCHANGED <<svars, node, twin, line, acc, nn>>

\* searchBestMove returns.
TreeDone ==
  /\ sr.pc = "tree" /\ stack = <<>>
  /\ sr' = [sr EXCEPT !.pc = "done"]
  /\ last' = [last EXCEPT !.op = "searchBestMove"]
  /\ UNCHANGED <<pos, stack, plyLeft, opt, ctx, tt, stopFlag, clockPast, ttAllocated, out, uci,
                 node, twin, line, acc, nn>>

NextTree == TreeMove \/ TreeNullMove \/ TreeNoisyMove \/ TreeAbort \/ TreeReturn \/ TreeDone
SpecTree == InitTree /\ [][NextTree]_vars

\* ---------------------------------------------------------------------------
\* uciLoop while a worker searches: the worker makes and undoes moves on the
\* loop's Position, and the command thread handles `d` and `eval`, which read
\* that Position without stopSearch()
\* ---------------------------------------------------------------------------
MaxPeeks == 1
MaxPeekPly == 2

PeekRoots == {fenStorm}

InitPeek ==
  /\ pos \in PeekRoots
  /\ stack = <<>> /\ plyLeft = MaxPeekPly
  /\ last = [op |-> "init", m |-> nullMove, before |-> pos, expect |-> pos, under |-> {}]
  /\ opt = defaultOptions /\ ctx = newContext /\ sr = [idleSearch EXCEPT !.pc = "tree"]
  /\ tt = emptyEntry /\ stopFlag = FALSE /\ clockPast = FALSE
  /\ ttAllocated = FALSE /\ out = <<>> /\ uci = noUci /\ twin = noTwin /\ acc = <<>>
  /\ node = noNode /\ line = noLine /\ nn = noEval

\* `d`: send(pos.toFEN()).
UciDebug ==
  /\ Len(out) < MaxPeeks
  /\ out' = Append(out, [line |-> "d", text |-> toFEN(pos), of |-> pos])
  /\ UNCHANGED <<pos, gvars, opt, ctx, sr, tt, stopFlag, clockPast, ttAllocated, uci>>

\* `eval`: evaluatePositionStm(pos, ...), sent as a number; kept here as the
\* Position the number was computed from.
UciEval ==
  /\ Len(out) < MaxPeeks
  /\ out' = Append(out, [line |-> "eval", text |-> <<>>, of |-> pos])
  /\ UNCHANGED <<pos, gvars, opt, ctx, sr, tt, stopFlag, clockPast, ttAllocated, uci>>

NextPeek == NextTree \/ UciDebug \/ UciEval
SpecPeek == InitPeek /\ [][NextPeek]_vars

\* ----------------------------------------------------------------- properties
\* Ghost readings of the last operation.
Made == last.op = "makeMove" /\ ~gameOver(last.before)
Mover == last.before.turn
TookSovereign ==
  /\ Made
  /\ last.m.type \in {"Normal", "MasonCommand", "CatapultMove"}
  /\ last.before.b[last.m.to] = makePiece(other(Mover), Sovereign)
BuildsWall(m) == m.type \in {"MasonConstruct", "Bastion"} \/ (m.type = "MasonCommand" /\ m.aux1 # SQ_NONE)
\* The fields of a Position other than the repetition history.
Core(p) == [f \in DOMAIN p \ {"history"} |-> p[f]]

Walled(p, c) ==
  \E s \in Squares :
     /\ p.b[s] = makePiece(c, Sovereign)
     /\ \A dr \in {-1, 0, 1}, dc \in {-1, 0, 1} :
          (<<dr, dc>> # <<0, 0>> /\ inBounds(row(s) + dr, col(s) + dc))
             => Abs(p.b[sq(row(s) + dr, col(s) + dc)]) \in {7, 8}
Returned == sr.pc = "done"
CutShort == Returned /\ ctx.aborted /\ sr.rootMoves # <<>>
Stopped == sr.stopAt # -1
C17_DrawFloor ==
  (node.pc = "ret" /\ node.ply > 0 /\ node.rep) => node.ret >= 0

Mutating == {"ucinewgame", "evalopt", "nnuefile", "position", "go", "quit"}
InHandler == uci.cpc \in {"body", "table"}

BestmoveLines == {i \in 1..Len(out) : out[i].line = "bestmove"}
InfoLines == {i \in 1..Len(out) : out[i].line = "info"}

TextFields(text) == TextWords(text)

TextRanks(board) ==
  LET sl == SelectSeq([i \in 1..Len(board) |-> i], LAMBDA i : board[i] = "/")
  IN [k \in 1..(Len(sl) + 1) |->
        SubSeq(board, IF k = 1 THEN 1 ELSE sl[k - 1] + 1, IF k = Len(sl) + 1 THEN Len(board) ELSE sl[k] - 1)]

RECURSIVE Files(_)
Files(rank) ==
  IF rank = <<>> THEN 0
  ELSE (IF isDigitChar(Head(rank)) THEN digitValue(Head(rank)) ELSE 1) + Files(Tail(rank))

BoardLetters == {"M", "C", "L", "P", "I", "S", "W", "R", "m", "c", "l", "p", "i", "s", "w", "r"}
BoardOf(text) == IF TextFields(text) = <<>> THEN <<>> ELSE TextFields(text)[1]

BadRanks(text) == Len(TextRanks(BoardOf(text))) # N
BadFiles(text) == \E k \in 1..Len(TextRanks(BoardOf(text))) : Files(TextRanks(BoardOf(text))[k]) # N
UnknownLetter(text) ==
  \E i \in 1..Len(BoardOf(text)) :
     LET ch == BoardOf(text)[i]
     IN ch # "/" /\ ch \notin BoardLetters /\ ~(isDigitChar(ch) /\ ch # "0")
\* The turn field is missing, or does not start with w or b in either case.
BadTurn(text) ==
  LET f == TextFields(text)
  IN Len(f) < 2 \/ tolower(f[2][1]) \notin {"w", "b"}
\* A clock is there and is not a number.  The clocks are the fifth and sixth
\* field, or the fourth and fifth when the fourth is a number (no wall flags).
BadClocks(text) ==
  LET f == TextFields(text)
      first == IF Len(f) >= 4 /\ isDigits(f[4]) THEN 4 ELSE 5
  IN \E k \in {first, first + 1} : k <= Len(f) /\ ~isDigits(f[k])

Parsed == line.pc = "parsed"

\* C22: fromFEN reports an error and produces no Position for every malformed
\* text: a rank that has not exactly 9 files, a board that has not exactly 9
\* ranks, an unknown piece letter, a missing or non-w/b turn field, a halfmove
\* or fullmove clock that is not a number.
C22_RejectsMalformed ==
  (Parsed /\ (BadFiles(line.text) \/ BadRanks(line.text) \/ UnknownLetter(line.text)
              \/ BadTurn(line.text) \/ BadClocks(line.text)))
     => ~line.res.ok

\* ------------------------------------------------------- the position command
Matches(tok, m) ==
  normalizeToken(tok) \in {moveToUciToken(m), normalizeToken(moveToPgnToken(m))}

RECURSIVE Replay(_, _, _)
Replay(p, steps, k) ==
  IF k > Len(steps) THEN p ELSE Replay(makeMove(p, steps[k].m).p, steps, k + 1)

IllegalLines == {i \in 1..Len(out) : out[i].line = "illegal move"}
ErrorLines == {i \in 1..Len(out) : out[i].line = "position error"}

Neighbours(s) ==
  {t \in Squares : t # s /\ row(t) - row(s) \in {-1, 0, 1} /\ col(t) - col(s) \in {-1, 0, 1}}
BastionAvailable ==
  /\ ~gameOver(pos) /\ pos.bastionRight[pos.turn]
  /\ pos.wallTokens[pos.turn] <= 15 /\ ~pos.wallBuiltLast[pos.turn]
FreeAround(ministerSq) ==
  {t \in Neighbours(ministerSq) : pos.b[t] = 0 /\ t # pos.sovereignSq[pos.turn]}
BastionsTo(ministerSq) ==
  LET g == generateMoves(pos)
  IN {i \in 1..Len(g) : g[i].type = "Bastion" /\ g[i].to = ministerSq}

MovesOf(c) == {i \in 1..Len(stack) : stack[i].pre.turn = c}
SovereignMovesOf(c) ==
  {i \in MovesOf(c) : \/ stack[i].m.type = "Bastion"
                      \/ stack[i].pre.b[stack[i].m.from] = makePiece(c, Sovereign)}
GameStart == IF stack = <<>> THEN pos ELSE stack[Len(stack)].pre

IsFloor(q, x, s) ==
  IF s = 31 THEN q = (IF x < 0 THEN -1 ELSE 0)
  ELSE IF s = 0 THEN q = x
  ELSE /\ q >= -(2^(31 - s)) /\ q <= 2^(31 - s) - 1
       /\ x - q * 2^s >= 0
       /\ x - q * 2^s < 2^s

\* C27: for every 32-bit x and every shift s in 0..31 the call returns, and
\* what it returns is floor(x / 2^s).
C27_ArshiftIsFloor ==
  /\ nn.pc # "trapped"
  /\ nn.pc = "returned" => IsFloor(nn.r, nn.x, nn.s)

\* What a move in the tried list is, for the order the moves are tried in.
IsTTMove(m) == node.ttBest.to # SQ_NONE /\ sameMove(m, node.ttBest)
IsCapture(m) == m.type \in {"Normal", "CatapultMove", "MasonCommand"} /\ pos.b[m.to] # 0
IsKiller(m) == isQuietMove(pos, m) /\ (sameMove(m, node.killers[1]) \/ sameMove(m, node.killers[2]))
Before(P(_), Q(_)) ==
  \A i, j \in DOMAIN node.tried :
     (P(node.tried[i]) /\ Q(node.tried[j]) /\ ~IsTTMove(node.tried[i]) /\ ~IsTTMove(node.tried[j]))
       => i < j

Offered ==
  [key |-> node.key, score |-> scoreToTT(node.best, node.ply), depth |-> node.depth,
   flag |-> IF node.best <= node.alphaOrig THEN "Upper"
            ELSE IF node.best >= node.beta THEN "Lower" ELSE "Exact",
   best |-> node.bestMove]
MayReplace == node.found.key = {} \/ node.found.key = node.key \/ node.depth >= node.found.depth

WinningMoves(p) == {m \in MoveSet(p) : gameOver(makeMove(p, m).p)}

lancersOf(p, c) == p.pieceBB[c][Lancer]
throughMason(p, c) ==
  \E x \in lancersOf(p, c) \X (4..7) :
     rayAttacks(p, ray[x[1]][x[2]], LAMBDA t : p.b[t] = makePiece(c, Mason))
       # rayAttacks(p, ray[x[1]][x[2]], LAMBDA t : FALSE)
C39_AspirationEnds ==
  /\ (sr.pc = "aspire") ~> (sr.pc # "aspire")
  /\ [](~last.overflow)

\* An iteration left inside the window after fails in both directions that
\* doubled the half-width past twice the largest score.
C39_Witness ==
  /\ sr.pc = "iter" /\ sr.curDepth = MaxAspDepth + 1
  /\ last.fails = {"low", "high"} /\ last.n >= 3 /\ ~last.overflow
  /\ sr.window > 2 * MATE
====
